---- MODULE Spec2Model ----
(***************************************************************************)
(* Model of the VALD request pipeline front end (backend/parsemail.c).     *)
(*                                                                         *)
(* C strings are sequences of one-character strings without the           *)
(* terminating NUL; a char buffer that is read at an offset (the line      *)
(* buffer s of main) is a sequence in which NUL marks the terminators.     *)
(* The mailbox is the sequence of chunks that fgets(s, 80, fi) returns;    *)
(* every line of the model is shorter than 80 characters, so a chunk is a  *)
(* line.  LOG_DEBUGGING is taken as not defined.                           *)
(***************************************************************************)
EXTENDS Integers, Sequences, FiniteSets, TLC

NUL == "NUL"
\* a null pointer or a missing file, and the content of an unset char array
NULL == <<"NULL">>
NOFILE == << <<"NULL">> >>
UNINIT == <<"UNINIT">>

Min(a, b) == IF a < b THEN a ELSE b

Range(f) == {f[i] : i \in DOMAIN f}

(***************************************************************************)
(* <ctype.h> in the C locale.                                              *)
(***************************************************************************)
UpperSeq ==
  <<"A","B","C","D","E","F","G","H","I","J","K","L","M",
    "N","O","P","Q","R","S","T","U","V","W","X","Y","Z">>

LowerSeq ==
  <<"a","b","c","d","e","f","g","h","i","j","k","l","m",
    "n","o","p","q","r","s","t","u","v","w","x","y","z">>

DigitSeq == <<"0","1","2","3","4","5","6","7","8","9">>

isalpha(c) == c \in Range(UpperSeq) \cup Range(LowerSeq)

isalnum(c) == isalpha(c) \/ c \in Range(DigitSeq)

tolower(c) ==
  IF c \in Range(UpperSeq)
    THEN LowerSeq[CHOOSE i \in 1..26 : UpperSeq[i] = c]
    ELSE c

(***************************************************************************)
(* <string.h> on NUL-free sequences.                                       *)
(***************************************************************************)
\* the character at 1-based index i of a C string, NUL at and after its end
Chr(a, i) == IF i <= Len(a) THEN a[i] ELSE NUL

\* strncmp(a, b, n) == 0
strncmp0(a, b, n) ==
  \A i \in 1..n : i <= Len(a) + 1 => Chr(a, i) = Chr(b, i)

\* strchr(a, c): 1-based index of the first c in a, 0 for NULL
strchr(a, c) ==
  IF \E i \in 1..Len(a) : a[i] = c
    THEN CHOOSE i \in 1..Len(a) : a[i] = c /\ \A j \in 1..(i-1) : a[j] # c
    ELSE 0

\* strrchr(a, c): 1-based index of the last c in a, 0 for NULL
strrchr(a, c) ==
  IF \E i \in 1..Len(a) : a[i] = c
    THEN CHOOSE i \in 1..Len(a) : a[i] = c /\ \A j \in (i+1)..Len(a) : a[j] # c
    ELSE 0

\* the C string that starts at 0-based offset off of buffer buf
CStrAt(buf, off) ==
  LET rest == SubSeq(buf, off + 1, Len(buf))
      z == strchr(rest, NUL)
  IN  IF z = 0 THEN rest ELSE SubSeq(rest, 1, z - 1)

\* fgets into buffer buf: the line, its NUL, and the older bytes behind it
FgetsInto(buf, line) ==
  line \o <<NUL>> \o SubSeq(buf, Len(line) + 2, Len(buf))

COMPRESS_MAX == 80

RECURSIVE compressFrom(_, _, _)
compressFrom(str, i, n) ==
  IF i > n \/ str[i] = "#"
    THEN <<>>
    ELSE (IF isalnum(str[i]) \/ str[i] \in {":", ".", ",", "-", "+"}
            THEN <<str[i]>> ELSE <<>>) \o compressFrom(str, i + 1, n)

compress(str) == compressFrom(str, 1, Min(Len(str), COMPRESS_MAX))

str2lower(str) == [i \in 1..Len(str) |-> tolower(str[i])]

\* state of the copy loop of swallow_quotes after the first i characters
RECURSIVE swallowLoop(_, _, _, _, _, _)
swallowLoop(str, i, open_q, close_q, quote, t) ==
  IF i > Len(str)
    THEN [quote |-> quote, t |-> t]
    ELSE IF str[i] = open_q /\ ~quote
      THEN swallowLoop(str, i + 1, open_q, close_q, TRUE, t)
      ELSE IF str[i] = close_q /\ quote
        THEN swallowLoop(str, i + 1, open_q, close_q, FALSE, t)
        ELSE IF ~quote
          THEN swallowLoop(str, i + 1, open_q, close_q, quote, Append(t, str[i]))
          ELSE swallowLoop(str, i + 1, open_q, close_q, quote, t)

swallow_quotes(str, open_q, close_q) ==
  LET r == swallowLoop(str, 1, open_q, close_q, FALSE, <<>>)
  IN  IF r.quote THEN <<>> ELSE r.t

(***************************************************************************)
(* CheckClient: reg is the registry as the lines fgets(s, 160, ...)        *)
(* returns, name the caller's ClientName buffer.                           *)
(***************************************************************************)
\* the ClientName written for a '#$' line
ClientOfLine(line) ==
  compress([i \in 1..Len(line) |->
              IF i <= 2 \/ ~isalpha(line[i]) THEN " " ELSE line[i]])

\* the address test of one registry line
EntryMatches(address, line) ==
  LET s1 == str2lower(address)
      e == str2lower(line)
  IN  strncmp0(s1, e, Min(Len(s1), Len(e)))

RECURSIVE CheckClientFrom(_, _, _, _)
CheckClientFrom(reg, i, address, name) ==
  IF i > Len(reg)
    THEN [ret |-> 0, name |-> <<>>]
    ELSE IF reg[i][1] = "#"
      THEN IF Chr(reg[i], 2) # "$"
             THEN CheckClientFrom(reg, i + 1, address, name)
             ELSE CheckClientFrom(reg, i + 1, address, ClientOfLine(reg[i]))
      ELSE IF EntryMatches(address, reg[i])
             THEN [ret |-> 1, name |-> name]
             ELSE CheckClientFrom(reg, i + 1, address, name)

CheckClient(reg, address, name) == CheckClientFrom(reg, 1, address, name)

(***************************************************************************)
(* The address of a 'From: ' line (main, lines 319-338); buf is the line   *)
(* buffer s after the continuation loop.  strcpy(address, c+1) copies      *)
(* within address from left to right.                                       *)
(***************************************************************************)
\* *c = '\0' for c the 1-based index i, nothing for NULL
CutAt(str, i) == IF i # 0 THEN SubSeq(str, 1, i - 1) ELSE str

\* the string behind the character at 1-based index i, all of it for NULL
After(str, i) == IF i # 0 THEN SubSeq(str, i + 1, Len(str)) ELSE str

\* lines 321-323: cut at '>', or else at the first blank
CutTerminator(str) ==
  IF strchr(str, ">") # 0 THEN CutAt(str, strchr(str, ">"))
  ELSE CutAt(str, strchr(str, " "))

ExtractAddress(buf) ==
  LET q   == swallow_quotes(swallow_quotes(CStrAt(buf, 6), "\"", "\""), "(", ")")
      s1  == CutTerminator(q)
      s1n == CutAt(s1, strchr(s1, "\n"))
      a0  == After(s1n, strchr(s1n, "<"))
      a1  == CutAt(a0, strrchr(a0, ">"))
      a2  == After(a1, strrchr(a1, ":"))
  IN  After(a2, strrchr(a2, "!"))

LocalSuffix == <<"_","l","o","c","a","l">>

MirrorName == <<"V","A","L","D","M","i","r","r","o","r","S","i","t","e">>

\* Authenticate with the two registers consulted in the other order
AuthenticateLocalFirst(reg, reg_local, addr) ==
  LET l == IF reg_local # NOFILE
             THEN CheckClient(reg_local, addr, <<>>).name ELSE <<>>
  IN  IF l = <<>> /\ reg # NOFILE
        THEN CheckClient(reg, addr, l).name
        ELSE IF l # <<>> THEN l \o LocalSuffix ELSE l

\* lines 340-353 of main: the global register first, then the local one;
\* a register that could not be opened (NOFILE) is a null FILE pointer
Authenticate(reg, reg_local, addr) ==
  LET g == IF reg # NOFILE THEN CheckClient(reg, addr, <<>>).name ELSE <<>>
  IN  IF g = <<>> /\ reg_local # NOFILE
        THEN LET l == CheckClient(reg_local, addr, g).name
             IN  IF l # <<>> THEN l \o LocalSuffix ELSE l
        ELSE g

(***************************************************************************)
(* printf conversions and the file names built from the request counter.   *)
(***************************************************************************)
RECURSIVE DigitsOf(_)
DigitsOf(n) ==
  IF n < 10 THEN <<DigitSeq[n + 1]>>
  ELSE DigitsOf(n \div 10) \o <<DigitSeq[(n % 10) + 1]>>

ZeroPad(d, w) ==
  IF Len(d) >= w THEN d ELSE [i \in 1..(w - Len(d)) |-> "0"] \o d

\* %06ld
Fmt06ld(n) ==
  IF n >= 0 THEN ZeroPad(DigitsOf(n), 6) ELSE <<"-">> \o ZeroPad(DigitsOf(-n), 5)

\* %li
Fmtli(n) == IF n >= 0 THEN DigitsOf(n) ELSE <<"-">> \o DigitsOf(-n)

RequestName(n) == <<"r","e","q","u","e","s","t",".">> \o Fmt06ld(n)

JobName(n) == <<"j","o","b",".">> \o Fmt06ld(n)

ResultName(n) == <<"r","e","s","u","l","t",".">> \o Fmt06ld(n)

(***************************************************************************)
(* Lines of the process script, one record per line written.  trap is the  *)
(* request number printed in the '|| (echo ERROR: ...; set ERROR_STATE=1)'  *)
(* tail of the line, NoTrap when the line has no such tail.                 *)
(***************************************************************************)
NoTrap == <<"none">>

PLine(cmd, file, arg, trap) ==
  [cmd |-> cmd, file |-> file, arg |-> arg, trap |-> trap]

ProcessHeader ==
  << PLine("#!/bin/csh", <<>>, <<>>, NoTrap),
     PLine("set ERROR_STATE=0", <<>>, <<>>, NoTrap) >>

ProcessExit == PLine("exit $ERROR_STATE", <<>>, <<>>, NoTrap)

\* the reply line and the requests.log line (lines 276-282 and 413-419)
ReplyLines(fname, addr, n, mirror, has_begin) ==
  (IF ~mirror \/ has_begin
     THEN << PLine("sendmail", ResultName(n), addr, Fmtli(n)) >>
     ELSE << >>)
  \o << PLine(IF ~mirror THEN "cat" ELSE "head -20", fname, <<>>, NoTrap) >>

\* the stanza of a request committed at a following 'From ' (lines 258-282)
StanzaAtFrom(fname, client, addr, n, mirror, has_begin) ==
  << PLine("banner", fname, <<>>, NoTrap),
     PLine("echo", fname, <<>>, NoTrap),
     PLine("parserequest", fname, client, Fmtli(n)),
     PLine("chmod u+x", JobName(n), <<>>, NoTrap),
     PLine("./job", JobName(n), <<>>, NoTrap),
     PLine("cat job", JobName(n), <<>>, NoTrap) >>
  \o ReplyLines(fname, addr, n, mirror, has_begin)

\* the stanza of a request committed at the end of the mailbox (lines 390-419)
StanzaAtEnd(fname, client, addr, n, mirror, has_begin) ==
  << PLine("banner", fname, <<>>, NoTrap),
     PLine("echo", fname, <<>>, NoTrap),
     PLine("parserequest", fname, client, Fmtli(n)),
     PLine("chmod u+x", JobName(n), <<>>, NoTrap),
     PLine("./job", JobName(n), <<>>, Fmtli(n)),
     PLine("cat job", JobName(n), <<>>, NoTrap) >>
  \o ReplyLines(fname, addr, n, mirror, has_begin)

(***************************************************************************)
(* Tests of the main loop on the C string in the line buffer.              *)
(***************************************************************************)
IsFromBoundary(str) == strncmp0(str, <<"F","r","o","m"," ">>, 5)

IsFromHeader(str) == strncmp0(str, <<"F","r","o","m",":"," ">>, 6)

IsContinuation(str) == strncmp0(str, <<" "," "," "," "," ">>, 5)

IsBeginRequest(str) ==
  strncmp0(str2lower(compress(str)), <<"b","e","g","i","n","r","e","q","u","e","s","t">>, 12)

IsEndRequest(str) ==
  strncmp0(str2lower(compress(str)), <<"e","n","d","r","e","q","u","e","s","t">>, 10)

(***************************************************************************)
(* The working directory: a function from the names of the files that      *)
(* exist to their contents (sequences of lines).                            *)
(***************************************************************************)
\* fopen(name, "wt")
Create(d, name) == [f \in DOMAIN d \cup {name} |-> IF f = name THEN <<>> ELSE d[f]]

\* remove(name)
Remove(d, name) == [f \in DOMAIN d \ {name} |-> d[f]]

\* fputs(line, fo) on the stream opened on name; the stream of a removed
\* file writes to the unlinked file
Fputs(d, name, line) ==
  IF name \in DOMAIN d THEN [d EXCEPT ![name] = Append(@, line)] ELSE d

(***************************************************************************)
(* The request counter file (get_last_request_ID, put_last_request_ID).    *)
(***************************************************************************)
DigitValue(c) == (CHOOSE i \in 1..10 : DigitSeq[i] = c) - 1

RECURSIVE AtolDigits(_, _, _)
AtolDigits(str, i, acc) ==
  IF i > Len(str) \/ str[i] \notin Range(DigitSeq)
    THEN acc
    ELSE AtolDigits(str, i + 1, 10 * acc + DigitValue(str[i]))

RECURSIVE SkipSpace(_, _)
SkipSpace(str, i) ==
  IF i <= Len(str) /\ str[i] \in {" ", "\n"} THEN SkipSpace(str, i + 1) ELSE i

atol(str) ==
  LET i == SkipSpace(str, 1)
  IN  IF Chr(str, i) = "-" THEN 0 - AtolDigits(str, i + 1, 0)
      ELSE IF Chr(str, i) = "+" THEN AtolDigits(str, i + 1, 0)
      ELSE AtolDigits(str, i, 0)

\* the value returned for the counter file content file (NULL: no file)
get_last_request_ID(file) == IF file = NULL THEN 0 - 1 ELSE atol(file)

\* the counter file content written for n ("%ld")
put_last_request_ID(n) == Fmtli(n)

(***************************************************************************)
(* Inputs of the model.                                                     *)
(***************************************************************************)
GlobalRegister ==
  << <<"#"," ","V","A","L","D"," ","c","l","i","e","n","t","s","\n">>,
     <<"#","$"," ","1"," ","J","o","e","_","D","\n">>,
     <<"a","@","b","\n">>,
     <<"#","$"," ","V","A","L","D","M","i","r","r","o","r","S","i","t","e","\n">>,
     <<"m","@","v","\n">> >>

LocalRegister ==
  << <<"#","$"," ","A","n","n","\n">>,
     <<"c","@","d","\n">>,
     <<"a","@","b","\n">> >>

L_From == <<"F","r","o","m"," ","x","\n">>
L_FromGlobal == <<"F","r","o","m",":"," ","J"," ","<","A","@","b",">","\n">>
L_FromLocal == <<"F","r","o","m",":"," ","c","@","d"," ","(","A",")","\n">>
L_FromMirror == <<"F","r","o","m",":"," ","m","@","v","\n">>
L_FromUnknown == <<"F","r","o","m",":"," ","z","@","z","\n">>
L_FromAlias == <<"F","r","o","m",":"," ","A","l","\n">>
L_Continued == <<" "," "," "," "," ","<","a","@","b",">","\n">>
L_Begin == <<" ","B","e","g","i","n"," ","R","e","q","u","e","s","t","\n">>
L_End == <<"e","n","d"," ","r","e","q","u","e","s","t","\n">>
L_Body == <<"5","0","0","0",",","5","0","1","0","\n">>

LineSet ==
  { L_From, L_FromGlobal, L_FromLocal, L_FromMirror, L_FromUnknown,
    L_FromAlias, L_Continued, L_Begin, L_End }

\* whole messages, so that mailboxes of several requests are within the bounds
MessageSet ==
  { <<L_From, L_FromGlobal, L_Begin, L_Body, L_End>>,
    <<L_From, L_FromMirror, L_Begin>>,
    <<L_From, L_FromLocal, L_Begin>>,
    <<L_From, L_FromAlias, L_Continued, L_Begin>>,
    <<L_From, L_FromAlias>>,
    <<L_From, L_FromUnknown, L_FromUnknown>>,
    <<L_From, L_Begin>> }

MaxLines == 3

MaxMsgs == 3

\* the concatenations of at most k members of parts
RECURSIVE Concats(_, _)
Concats(parts, k) ==
  IF k = 0 THEN {<<>>}
  ELSE LET S == Concats(parts, k - 1) IN S \cup {p \o m : p \in parts, m \in S}

Mailboxes ==
  Concats({<<l>> : l \in LineSet}, MaxLines) \cup Concats(MessageSet, MaxMsgs)

\* the registers and the counter file the run finds: both registers and no
\* counter file, one register and the counter file of an earlier run, none
Environments ==
  { <<GlobalRegister, LocalRegister, NULL>>,
    <<GlobalRegister, NOFILE, <<"1">> >>,
    <<NOFILE, LocalRegister, <<"1">> >>,
    <<NOFILE, NOFILE, NULL>> }

\* content of an uninitialised ClientName and filename when it is read
GarbageNames == {<<>>, <<"?">>}

GarbageFiles == {<<"?">>}

ReadClientName(name) == IF name = UNINIT THEN GarbageNames ELSE {name}

ReadFilename(name) == IF name = UNINIT THEN GarbageFiles ELSE {name}

(***************************************************************************)
(* State of one run of parsemail.                                           *)
(*   mail, pos            VALD_MAIL as fgets chunks and the position of fi  *)
(*   cl_register, cl_register_local   the two registers (NOFILE: missing)   *)
(*   last_file            content of LAST_SUBMITTED_REQUEST (NULL: missing) *)
(*   disk                 the request files of the working directory        *)
(*   process              the lines written to the process script           *)
(*   s ... ClientName     the locals of main; fo is the name the open       *)
(*                        request stream was opened on, or NULL             *)
(*   ret                  the value returned by the last CheckClient call   *)
(*   unclosed             request streams opened and not yet closed         *)
(* History variables, read by no action:                                    *)
(*   start                position of the 'From ' line of the last fopen    *)
(*   owner                for each request file name, start of its last     *)
(*                        fopen                                             *)
(*   commits              for each stanza written: start and stop position  *)
(*                        of its lines in mail, first and last line of the  *)
(*                        stanza in process                                 *)
(***************************************************************************)
VARIABLES mail, pos, cl_register, cl_register_local, last_file, disk, process,
          pc, s, n_requests, n_requests_orig, has_begin_request,
          has_end_request, is_mirror, fo, filename, address, ClientName, ret,
          unclosed, start, owner, commits

(***************************************************************************)
(* State of one run of parserequest and of the files it shares with other   *)
(* runs.                                                                    *)
(*   request, rd          the file filename[1] as fgets chunks (NOFILE: it  *)
(*                        cannot be opened) and the position of fi          *)
(*   writable             whether job.NNNNNN can be created                 *)
(*   job                  the lines written to the job script fo            *)
(*   number               the request number taken from filename[1]         *)
(*   user                 filename[2]                                       *)
(*   Client_Name, Personal_VALD_CONFIG, kw      the globals of lines 40-58  *)
(*   cfg                  the configuration files that exist                *)
(*   models               the entries of DIR_MODELS in readdir order        *)
(*   request_type, error_state   the locals of main                         *)
(*   status               the value main returned                           *)
(*   run, job1            the number of the run on this request and the job *)
(*                        script the first run left                         *)
(*   wanted, bestmod, found   the pair read from name, and the results of   *)
(*                        FindNearestModel                                  *)
(*   request_file         filename[1]                                       *)
(*   inputs               what was written to pres_in, show_in and          *)
(*                        select.input                                      *)
(*   stack                what the run finds in the storage it reads        *)
(*                        without having written it                         *)
(*   nshow                the local ishow of ShowLine where ShowLine is     *)
(*                        stepped through turn by turn                      *)
(***************************************************************************)
VARIABLES request, rd, writable, job, number, user, Client_Name,
          Personal_VALD_CONFIG, kw, cfg, models, request_type, error_state,
          status, run, job1, wanted, bestmod, found, request_file, inputs,
          stack, nshow

(***************************************************************************)
(* State of the line list decoder (vald/lib/vald3/src).                     *)
(*   fi                   for each handle, NULL or the open data file: its  *)
(*                        name and the position of the stream               *)
(*   number_of_records, records, current_record   the arrays of lines 53-59 *)
(*   wl, element, strbuf  the caller's arrays wl, element and str as the    *)
(*                        last call left them                               *)
(*   returned, call       the value the last call returned, and the call    *)
(*   readers              the VALD3Reader objects: is_open, data_file,      *)
(*                        desc_file                                         *)
(*   result               what the last query_range returned or threw       *)
(*   record, length       the compressed record and its length              *)
(*   Code ... byte1       the globals of lines 16-32 and the static byte1   *)
(*                        of ReadCode                                       *)
(*   linebuf              line[0..nbytes-1] of uncompress                   *)
(*   delivered            the lines ADDLINE has stored                      *)
(*   lcount               the loop counter l of uncompress                  *)
(*   corpus, encoder      the bytes that are encoded into record, and the   *)
(*                        state of the encoder                              *)
(*   host                 the machine and the build: its byte order and     *)
(*                        whether its char is signed                        *)
(*   change_byte_order    the global of line 32                             *)
(*   wire                 the bytes of a descriptor and of one line as they *)
(*                        are in the files                                  *)
(*   got                  what ukopen_ and ADDLINE have read from wire: the *)
(*                        number of records, the fields of the directory,   *)
(*                        the array line, the fields and the text block of  *)
(*                        the line                                          *)
(***************************************************************************)
VARIABLES fi, number_of_records, records, current_record, wl, element,
          strbuf, returned, call, readers, result, record, length, Code,
          MaxCode, ReadMask, OldCode, FinChar, CodeSize, FreeCode, Prefix,
          Suffix, BitOffset, current_byte_in_record, byte1, linebuf,
          delivered, lcount, corpus, encoder, host, change_byte_order, wire,
          got

ukvars == << fi, number_of_records, records, current_record, wl, element,
           strbuf, returned, call, readers, result >>

lzvars == << record, length, Code, MaxCode, ReadMask, OldCode, FinChar,
            CodeSize, FreeCode, Prefix, Suffix, BitOffset,
            current_byte_in_record, byte1, linebuf, delivered, lcount,
            corpus, encoder, host, change_byte_order, wire, got >>

dcvars == << ukvars, lzvars >>

prvars == << request, rd, writable, job, number, user, Client_Name,
             Personal_VALD_CONFIG, kw, cfg, models, request_type, error_state,
             status, run, job1, wanted, bestmod, found, request_file,
             inputs, stack, nshow >>

vars == << mail, pos, cl_register, cl_register_local, last_file, disk, process,
           pc, s, n_requests, n_requests_orig, has_begin_request,
           has_end_request, is_mirror, fo, filename, address, ClientName, ret,
           unclosed, start, owner, commits,
           request, rd, writable, job, number, user, Client_Name,
           Personal_VALD_CONFIG, kw, cfg, models, request_type, error_state,
           status, run, job1, wanted, bestmod, found, request_file,
           inputs, stack, nshow,
           fi, number_of_records, records, current_record, wl, element,
           strbuf, returned, call, readers, result, record, length, Code,
           MaxCode, ReadMask, OldCode, FinChar, CodeSize, FreeCode, Prefix,
           Suffix, BitOffset, current_byte_in_record, byte1, linebuf,
           delivered, lcount, corpus, encoder, host, change_byte_order, wire,
           got >>

files == << mail, cl_register, cl_register_local >>

locals == << s, n_requests, n_requests_orig, has_begin_request,
             has_end_request, is_mirror, fo, filename, address, ClientName >>

history == << start, owner, commits >>

EmptyDisk == [f \in {} |-> <<>>]

InitLocals ==
  /\ pos = 1
  /\ disk = EmptyDisk
  /\ process = <<>>
  /\ s = <<>>
  /\ n_requests = 0
  /\ n_requests_orig = 0
  /\ has_begin_request = FALSE
  /\ has_end_request = FALSE
  /\ is_mirror = FALSE
  /\ fo = NULL
  /\ filename = UNINIT
  /\ address = UNINIT
  /\ ClientName = UNINIT
  /\ ret = 0
  /\ unclosed = 0
  /\ start = 0
  /\ owner = EmptyDisk
  /\ commits = <<>>

\* no request type read yet
UNKNOWN == "UNKNOWN"

\* the state of parserequest where no parserequest runs
PRIdle ==
  /\ request = NOFILE
  /\ rd = 1
  /\ writable = TRUE
  /\ job = <<>>
  /\ number = 0
  /\ user = <<>>
  /\ Client_Name = <<>>
  /\ Personal_VALD_CONFIG = <<>>
  /\ kw = <<>>
  /\ cfg = {}
  /\ models = <<>>
  /\ request_type = UNKNOWN
  /\ error_state = 0
  /\ status = 0
  /\ run = 1
  /\ job1 = <<>>
  /\ wanted = <<0, 0>>
  /\ bestmod = <<>>
  /\ found = 0
  /\ request_file = <<>>
  /\ inputs = <<>>
  /\ stack = <<>>
  /\ nshow = 0

\* the state of the decoder where no reader was opened
UKIdle ==
  /\ fi = <<>>
  /\ number_of_records = <<>>
  /\ records = <<>>
  /\ current_record = <<>>
  /\ wl = <<>>
  /\ element = <<>>
  /\ strbuf = <<>>
  /\ returned = 0
  /\ call = <<>>
  /\ readers = <<>>
  /\ result = <<>>

\* the state of the decoder where uncompress does not run
\* the state of the reads of ukopen_ and ADDLINE where none is followed
BOIdle ==
  /\ host = <<>>
  /\ change_byte_order = 0
  /\ wire = <<>>
  /\ got = <<>>

LZOnlyIdle ==
  /\ record = <<>>
  /\ length = 0
  /\ Code = 0
  /\ MaxCode = 0
  /\ ReadMask = 0
  /\ OldCode = 0
  /\ FinChar = 0
  /\ CodeSize = 0
  /\ FreeCode = 0
  /\ Prefix = <<>>
  /\ Suffix = <<>>
  /\ BitOffset = 0
  /\ current_byte_in_record = 0
  /\ byte1 = 0
  /\ linebuf = <<>>
  /\ delivered = <<>>
  /\ lcount = 0
  /\ corpus = <<>>
  /\ encoder = <<>>

LZIdle == LZOnlyIdle /\ BOIdle

\* the state of the decoder where no decoder runs
DCIdle == UKIdle /\ LZIdle

\* the state of parsemail where no parsemail runs
MailIdle ==
  /\ mail = NOFILE
  /\ cl_register = NOFILE
  /\ cl_register_local = NOFILE
  /\ last_file = NULL
  /\ InitLocals

Init ==
  /\ mail \in Mailboxes \cup {NOFILE}
  /\ \E env \in Environments :
       /\ cl_register = env[1]
       /\ cl_register_local = env[2]
       /\ last_file = env[3]
  /\ pc = "start"
  /\ InitLocals
  /\ PRIdle
  /\ DCIdle

(***************************************************************************)
(* main, lines 175-223: open the files, read the counter.                   *)
(***************************************************************************)
Startup ==
  /\ pc = "start"
  /\ IF mail = NOFILE
       THEN /\ pc' = "returned"
            /\ UNCHANGED << process, n_requests, n_requests_orig >>
       ELSE /\ process' = ProcessHeader
            /\ IF cl_register = NOFILE /\ cl_register_local = NOFILE
                 THEN /\ pc' = "returned"
                      /\ UNCHANGED << n_requests, n_requests_orig >>
                 ELSE LET n == get_last_request_ID(last_file)
                          n0 == IF n < 0 THEN 0 ELSE n
                      IN  /\ n_requests' = n0
                          /\ n_requests_orig' = n0
                          /\ pc' = "loop"
  /\ UNCHANGED prvars
  /\ UNCHANGED dcvars
  /\ UNCHANGED << files, pos, last_file, disk, s, has_begin_request,
                  has_end_request, is_mirror, fo, filename, address,
                  ClientName, ret, unclosed, history >>

(***************************************************************************)
(* One iteration of the while loop for a line that starts with 'From '      *)
(* (lines 244-292, then 366-375).                                           *)
(***************************************************************************)
FromBoundary ==
  /\ pc = "loop"
  /\ pos <= Len(mail)
  /\ IsFromBoundary(mail[pos])
  /\ \E client \in ReadClientName(ClientName) :
       LET line   == mail[pos]
           open   == fo # NULL
           commit == open /\ has_begin_request
           abort  == open /\ ~has_begin_request
           stanza == IF commit
                       THEN StanzaAtFrom(filename, client, address, n_requests,
                                         is_mirror, has_begin_request)
                       ELSE <<>>
           n1     == IF abort THEN n_requests - 1 ELSE n_requests
           d1     == IF abort THEN Remove(disk, filename) ELSE disk
           n2     == n1 + 1
           fname  == RequestName(n2)
       IN  /\ s' = FgetsInto(s, line)
           /\ pos' = pos + 1
           /\ process' = process \o stanza
           /\ n_requests' = n2
           /\ filename' = fname
           /\ fo' = fname
           /\ address' = <<>>
           /\ has_begin_request' =
                ((IF open THEN FALSE ELSE has_begin_request) \/ IsBeginRequest(line))
           /\ has_end_request' =
                ((IF open THEN FALSE ELSE has_end_request) \/ IsEndRequest(line))
           /\ is_mirror' = (IF open THEN FALSE ELSE is_mirror)
           /\ disk' = Fputs(Create(d1, fname), fname, line)
           /\ unclosed' = (IF open THEN unclosed - 1 ELSE unclosed) + 1
           /\ start' = pos
           /\ owner' = [f \in DOMAIN owner \cup {fname} |->
                          IF f = fname THEN pos ELSE owner[f]]
           /\ commits' = IF commit
                           THEN Append(commits,
                                  [start |-> start, stop |-> pos,
                                   first |-> Len(process) + 1,
                                   last |-> Len(process) + Len(stanza)])
                           ELSE commits
  /\ UNCHANGED prvars
  /\ UNCHANGED dcvars
  /\ UNCHANGED << files, last_file, pc, n_requests_orig, ClientName, ret >>

\* lines 314-317: read on while the lines start with five blanks and hold no '@'
RECURSIVE ContinuationLoop(_, _, _)
ContinuationLoop(m, buf, p) ==
  IF p > Len(m)
    THEN [s |-> buf, pos |-> p]
    ELSE LET b == FgetsInto(buf, m[p])
         IN  IF ~IsContinuation(m[p]) \/ strchr(m[p], "@") # 0
               THEN [s |-> b, pos |-> p + 1]
               ELSE ContinuationLoop(m, b, p + 1)

(***************************************************************************)
(* One iteration for a line that starts with 'From: ' (lines 293-365, then  *)
(* 366-375 unless the request was killed).                                  *)
(***************************************************************************)
FromHeader ==
  /\ pc = "loop"
  /\ pos <= Len(mail)
  /\ ~IsFromBoundary(mail[pos])
  /\ IsFromHeader(mail[pos])
  /\ \E victim \in ReadFilename(filename) :
       LET b0   == FgetsInto(s, mail[pos])
           r    == IF strchr(mail[pos], "@") = 0
                     THEN ContinuationLoop(mail, b0, pos + 1)
                     ELSE [s |-> b0, pos |-> pos + 1]
           line == CStrAt(r.s, 0)
           addr == ExtractAddress(r.s)
           name == Authenticate(cl_register, cl_register_local, addr)
           copy == name # <<>> /\ fo # NULL
       IN  /\ s' = r.s
           /\ pos' = r.pos
           /\ address' = addr
           /\ ClientName' = name
           /\ n_requests' = IF name = <<>> THEN n_requests - 1 ELSE n_requests
           /\ fo' = IF name = <<>> THEN NULL ELSE fo
           /\ has_begin_request' =
                IF name = <<>> THEN FALSE
                ELSE has_begin_request \/ (copy /\ IsBeginRequest(line))
           /\ has_end_request' =
                IF name = <<>> THEN FALSE
                ELSE has_end_request \/ (copy /\ IsEndRequest(line))
           /\ is_mirror' =
                IF name = <<>> THEN FALSE ELSE is_mirror \/ name = MirrorName
           /\ disk' = IF name = <<>> THEN Remove(disk, victim)
                      ELSE IF copy THEN Fputs(disk, fo, line) ELSE disk
  /\ UNCHANGED prvars
  /\ UNCHANGED dcvars
  /\ UNCHANGED << files, last_file, process, pc, n_requests_orig, filename, ret,
                  unclosed, history >>

(***************************************************************************)
(* One iteration for any other line (lines 366-375).                        *)
(***************************************************************************)
BodyLine ==
  /\ pc = "loop"
  /\ pos <= Len(mail)
  /\ ~IsFromBoundary(mail[pos])
  /\ ~IsFromHeader(mail[pos])
  /\ LET line == mail[pos]
         copy == fo # NULL
     IN  /\ s' = FgetsInto(s, line)
         /\ pos' = pos + 1
         /\ has_begin_request' = (has_begin_request \/ (copy /\ IsBeginRequest(line)))
         /\ has_end_request' = (has_end_request \/ (copy /\ IsEndRequest(line)))
         /\ disk' = IF copy THEN Fputs(disk, fo, line) ELSE disk
  /\ UNCHANGED prvars
  /\ UNCHANGED dcvars
  /\ UNCHANGED << files, last_file, process, pc, n_requests, n_requests_orig,
                  is_mirror, fo, filename, address, ClientName, ret, unclosed,
                  history >>

(***************************************************************************)
(* End of the mailbox (lines 377-426).  fclose(cl_register) on a register   *)
(* that was not opened is undefined: the run goes on (Finish) or dies       *)
(* there (FinishCrash).  A run that dies leaves the lines of the process    *)
(* script in the stream buffer (they are fewer than BUFSIZ bytes here): the *)
(* script stays empty, and the counter file is not written.                 *)
(***************************************************************************)
EndOfMail(crash) ==
  /\ pc = "loop"
  /\ pos > Len(mail)
  /\ \E client \in ReadClientName(ClientName) :
       LET open   == fo # NULL
           commit == open /\ has_begin_request
           abort  == open /\ ~has_begin_request
           stanza == IF commit
                       THEN StanzaAtEnd(filename, client, address, n_requests,
                                        is_mirror, has_begin_request)
                       ELSE <<>>
           n1     == IF abort THEN n_requests - 1 ELSE n_requests
       IN  /\ n_requests' = n1
           /\ disk' = IF abort THEN Remove(disk, filename) ELSE disk
           /\ fo' = NULL
           /\ unclosed' = IF open THEN unclosed - 1 ELSE unclosed
           /\ IF crash
                THEN /\ process' = <<>>
                     /\ commits' = <<>>
                     /\ last_file' = last_file
                     /\ pc' = "crashed"
                ELSE /\ process' = (process \o stanza) \o <<ProcessExit>>
                     /\ commits' = IF commit
                                     THEN Append(commits,
                                            [start |-> start, stop |-> pos,
                                             first |-> Len(process) + 1,
                                             last |-> Len(process) + Len(stanza)])
                                     ELSE commits
                     /\ last_file' = put_last_request_ID(n1)
                     /\ pc' = "done"
  /\ UNCHANGED prvars
  /\ UNCHANGED dcvars
  /\ UNCHANGED << files, pos, s, n_requests_orig, has_begin_request,
                  has_end_request, is_mirror, filename, address, ClientName,
                  ret, start, owner >>

Finish == EndOfMail(FALSE)

FinishCrash == cl_register = NOFILE /\ EndOfMail(TRUE)

Next ==
  \/ Startup
  \/ FromBoundary
  \/ FromHeader
  \/ BodyLine
  \/ Finish
  \/ FinishCrash

Spec == Init /\ [][Next]_vars

(***************************************************************************)
(* Runs on a mailbox of one message: its 'From ' line, a 'From: ' header    *)
(* with the address on it, and at most MaxAfter lines behind the header.    *)
(***************************************************************************)
MaxAfter == 3

HeaderSet == {L_FromGlobal, L_FromLocal, L_FromMirror, L_FromUnknown}

AfterSet == {L_Body, L_Begin, L_FromMirror, L_FromUnknown}

OneMessage ==
  {<<L_From, h>> \o b :
     h \in HeaderSet, b \in Concats({<<l>> : l \in AfterSet}, MaxAfter)}

OneInit ==
  /\ mail \in OneMessage
  /\ \E env \in Environments :
       /\ cl_register = env[1]
       /\ cl_register_local = env[2]
       /\ last_file = env[3]
  /\ pc = "start"
  /\ InitLocals
  /\ PRIdle
  /\ DCIdle

SpecOne == OneInit /\ [][Next]_vars

(***************************************************************************)
(* CheckClient on its own: one call with a register and an address.         *)
(***************************************************************************)
AddrChars == {"a", "A", "@", "b"}

MaxAddr == 3

MaxRegLines == 3

R_Joe == <<"#","$"," ","J","o","e"," ","1","\n">>
R_Comment == <<"#"," ","x","\n">>
R_ab == <<"a","@","b","\n">>
R_A == <<"A","@","\n">>
R_ba == <<"b","@","a">>

RegLineSet == {R_Joe, R_Comment, R_ab, R_A, R_ba}

\* the addresses of at most MaxAddr characters
Addresses == Concats({<<c>> : c \in AddrChars}, MaxAddr)

\* the registers of at most MaxRegLines lines as fgets returns them: only the
\* last line of a file can lack its newline
Registers ==
  {r \in Concats({<<l>> : l \in RegLineSet}, MaxRegLines) :
     \A i \in 1..(Len(r) - 1) : r[i][Len(r[i])] = "\n"}

CCInit ==
  /\ mail = NOFILE
  /\ cl_register \in Registers
  /\ cl_register_local = NOFILE
  /\ last_file = NULL
  /\ pc = "CheckClient"
  /\ pos = 1
  /\ disk = EmptyDisk
  /\ process = <<>>
  /\ s = <<>>
  /\ n_requests = 0
  /\ n_requests_orig = 0
  /\ has_begin_request = FALSE
  /\ has_end_request = FALSE
  /\ is_mirror = FALSE
  /\ fo = NULL
  /\ filename = UNINIT
  /\ address \in Addresses
  /\ ClientName = <<>>
  /\ ret = 0
  /\ unclosed = 0
  /\ start = 0
  /\ owner = EmptyDisk
  /\ commits = <<>>
  /\ PRIdle
  /\ DCIdle

CCCall ==
  /\ pc = "CheckClient"
  /\ LET r == CheckClient(cl_register, address, ClientName)
     IN  /\ ret' = r.ret
         /\ ClientName' = r.name
  /\ pc' = "CheckClient.return"
  /\ UNCHANGED prvars
  /\ UNCHANGED dcvars
  /\ UNCHANGED << files, last_file, pos, disk, process, s, n_requests,
                  n_requests_orig, has_begin_request, has_end_request,
                  is_mirror, fo, filename, address, unclosed, history >>

SpecCC == CCInit /\ [][CCCall]_vars

(***************************************************************************)
(* parserequest.c: strings.                                                 *)
(***************************************************************************)
toupper(c) ==
  IF c \in Range(LowerSeq)
    THEN UpperSeq[CHOOSE i \in 1..26 : LowerSeq[i] = c]
    ELSE c

isdigit(c) == c \in Range(DigitSeq)

isblank(c) == c \in {" ", "\t"}

str2upper(str) == [i \in 1..Len(str) |-> toupper(str[i])]

\* compress(s1, s, nn) of parserequest.c: the same filter as in parsemail.c,
\* over the first nn characters
compressN(str, nn) == compressFrom(str, 1, Min(Len(str), nn))

\* the first index in i..n whose character is not blank / alphanumeric /
\* a digit, n + 1 when there is none
RECURSIVE SkipBlank(_, _, _)
SkipBlank(str, i, n) ==
  IF i <= n /\ isblank(str[i]) THEN SkipBlank(str, i + 1, n) ELSE i

RECURSIVE SkipAlnum(_, _, _)
SkipAlnum(str, i, n) ==
  IF i <= n /\ isalnum(str[i]) THEN SkipAlnum(str, i + 1, n) ELSE i

RECURSIVE SkipDigit(_, _, _)
SkipDigit(str, i, n) ==
  IF i <= n /\ isdigit(str[i]) THEN SkipDigit(str, i + 1, n) ELSE i

SPECIES_MAX == 255

\* compress_species(s1, str): the new content of s1.  The comment test
\* '!s[i]==35' never holds, so no comment is cut; for a line of blanks only
\* the function returns before it writes s1.
compress_species(s1, str) ==
  LET n == Min(Len(str), SPECIES_MAX)
      a == SkipBlank(str, 1, n)
      e == SkipAlnum(str, a, n)
      b == SkipBlank(str, e, n)
  IN  IF a > n
        THEN s1
        ELSE SubSeq(str, a, IF e < n THEN e ELSE n)
               \o SubSeq(str, b, SkipDigit(str, b, n) - 1)

\* the test that sends a line to sscanf: a digit, '.', '+' or '-' first
NumericStart(str) ==
  isdigit(Chr(str, 1)) \/ Chr(str, 1) \in {".", "+", "-"}

\* the first two digits after the decimal point, as hundredths
Hundredths(str, i) ==
  (IF isdigit(Chr(str, i)) THEN 10 * DigitValue(str[i]) ELSE 0)
  + (IF isdigit(Chr(str, i)) /\ isdigit(Chr(str, i + 1))
       THEN DigitValue(str[i + 1]) ELSE 0)

\* one %lg conversion at index i of a string without blanks, exponent, hex,
\* inf or nan: [ok, val, next], val in hundredths
ScanLg(str, i) ==
  LET neg == Chr(str, i) = "-"
      p == IF Chr(str, i) \in {"+", "-"} THEN i + 1 ELSE i
      q == SkipDigit(str, p, Len(str))
      dot == Chr(str, q) = "."
      r == IF dot THEN SkipDigit(str, q + 1, Len(str)) ELSE q
      mag == 100 * AtolDigits(str, p, 0) + (IF dot THEN Hundredths(str, q + 1) ELSE 0)
  IN  [ok |-> q > p \/ (dot /\ r > q + 1),
       val |-> IF neg THEN 0 - mag ELSE mag,
       next |-> r]

\* sscanf(s1, "%lg%*1s%lg", &a, &b): the count returned and the values stored
sscanf2(str) ==
  LET a == ScanLg(str, 1)
  IN  IF ~a.ok
        THEN [n |-> 0, a |-> 0, b |-> 0]
        ELSE IF a.next > Len(str)
          THEN [n |-> 1, a |-> a.val, b |-> 0]
          ELSE IF ScanLg(str, a.next + 1).ok
            THEN [n |-> 2, a |-> a.val, b |-> ScanLg(str, a.next + 1).val]
            ELSE [n |-> 1, a |-> a.val, b |-> 0]

\* a mutation of the name of the preselect input: the number is not padded
PresInUnpadded(n) == <<"p","r","e","s","_","i","n",".">> \o Fmtli(n)

\* "%03d"
Fmt03d(n) == ZeroPad(DigitsOf(n), 3)

PresIn(n) == <<"p","r","e","s","_","i","n",".">> \o Fmt06ld(n)

ShowIn(n, i) == <<"s","h","o","w","_","i","n",".">> \o Fmt06ld(n) \o <<"_">> \o Fmt03d(i)

\* "%s.%06ld" followed by ext
ClientFile(client, n, ext) == client \o <<".">> \o Fmt06ld(n) \o ext

(***************************************************************************)
(* parserequest.c: the global option flags and SetKeyword.                   *)
(***************************************************************************)
\* the globals of lines 40-58 at program start
KwInit ==
  [LongFormat |-> 0,
   PersonalConfiguration |-> 0,
   HaveRadiativeDamping |-> 0,
   HaveStarkDamping |-> 0,
   HaveVanderWaalsDamping |-> 0,
   HaveLande |-> 0,
   HaveTermDesignation |-> 0,
   ExtendedWaals |-> 0,
   ZeemanPattern |-> 0,
   StarkBroadening |-> 0,
   FTPretrieval |-> 0,
   Energy_in_inv_cm |-> 0,
   Wavelength_in_vac |-> 0,
   Wavelength_units |-> 0,
   Isotopic_scaling_of_gf |-> 1,
   HFS_splitting |-> 0]

\* the strncmp tests of SetKeyword in source order: keyword, compared
\* length, the global assigned and its value
KeywordTable ==
  << [word |-> <<"L","O","N","G","F","O","R","M","A","T">>,
      len |-> 4, flag |-> "LongFormat", val |-> 1],
     [word |-> <<"S","H","O","R","T","F","O","R","M","A","T">>,
      len |-> 5, flag |-> "LongFormat", val |-> 0],
     [word |-> <<"P","E","R","S","O","N","A","L","C","O","N","F","I","G","U","R","A","T","I","O","N">>,
      len |-> 6, flag |-> "PersonalConfiguration", val |-> 1],
     [word |-> <<"D","E","F","A","U","L","T","C","O","N","F","I","G","U","R","A","T","I","O","N">>,
      len |-> 10, flag |-> "PersonalConfiguration", val |-> 0],
     [word |-> <<"H","A","V","E","R","A","D">>,
      len |-> 7, flag |-> "HaveRadiativeDamping", val |-> 1],
     [word |-> <<"H","A","V","E","S","T","A","R","K">>,
      len |-> 9, flag |-> "HaveStarkDamping", val |-> 1],
     [word |-> <<"H","A","V","E","W","A","A","L","S">>,
      len |-> 9, flag |-> "HaveVanderWaalsDamping", val |-> 1],
     [word |-> <<"H","A","V","E","L","A","N","D","E">>,
      len |-> 9, flag |-> "HaveLande", val |-> 1],
     [word |-> <<"H","A","V","E","T","E","R","M">>,
      len |-> 8, flag |-> "HaveTermDesignation", val |-> 1],
     [word |-> <<"D","E","F","A","U","L","T","W","A","A","L","S">>,
      len |-> 8, flag |-> "ExtendedWaals", val |-> 0],
     [word |-> <<"E","X","T","E","N","D","E","D","W","A","A","L","S">>,
      len |-> 9, flag |-> "ExtendedWaals", val |-> 1],
     [word |-> <<"Z","E","E","M","A","N","P","A","T","T","E","R","N">>,
      len |-> 6, flag |-> "ZeemanPattern", val |-> 1],
     [word |-> <<"S","T","A","R","K","B","R","O","A","D","E","N","I","N","G">>,
      len |-> 5, flag |-> "StarkBroadening", val |-> 1],
     [word |-> <<"V","I","A","F","T","P">>,
      len |-> 6, flag |-> "FTPretrieval", val |-> 1],
     [word |-> <<"E","N","E","R","G","Y","U","N","I","T","E","V">>,
      len |-> 11, flag |-> "Energy_in_inv_cm", val |-> 0],
     [word |-> <<"E","N","E","R","G","Y","U","N","I","T","1","C","M">>,
      len |-> 12, flag |-> "Energy_in_inv_cm", val |-> 1],
     [word |-> <<"M","E","D","I","U","M","A","I","R">>,
      len |-> 7, flag |-> "Wavelength_in_vac", val |-> 0],
     [word |-> <<"M","E","D","I","U","M","V","A","C","U","U","M">>,
      len |-> 7, flag |-> "Wavelength_in_vac", val |-> 1],
     [word |-> <<"W","A","V","E","U","N","I","T","A","N","G","S","T","R","O","M">>,
      len |-> 9, flag |-> "Wavelength_units", val |-> 0],
     [word |-> <<"W","A","V","E","U","N","I","T","N","M">>,
      len |-> 9, flag |-> "Wavelength_units", val |-> 1],
     [word |-> <<"W","A","V","E","U","N","I","T","1","C","M">>,
      len |-> 10, flag |-> "Wavelength_units", val |-> 2],
     [word |-> <<"I","S","O","T","O","P","I","C","S","C","A","L","I","N","G","O","N">>,
      len |-> 17, flag |-> "Isotopic_scaling_of_gf", val |-> 1],
     [word |-> <<"I","S","O","T","O","P","I","C","S","C","A","L","I","N","G","O","F","F">>,
      len |-> 18, flag |-> "Isotopic_scaling_of_gf", val |-> 0],
     [word |-> <<"H","F","S","S","P","L","I","T","T","I","N","G">>,
      len |-> 8, flag |-> "HFS_splitting", val |-> 1],
     [word |-> <<"N","O","H","F","S","S","P","L","I","T","T","I","N","G">>,
      len |-> 10, flag |-> "HFS_splitting", val |-> 0] >>

\* one line of the job script: what it runs, the file names in it that carry
\* the request number, and the text taken from the input
JLine(cmd, names, arg) == [cmd |-> cmd, names |-> names, arg |-> arg]

\* VALD_CONFIG, the default configuration the personal one is copied from
DefaultConfig == <<"d","e","f","a","u","l","t",".","c","f","g">>

\* the keywords of the table that s1, upper-cased, matches
KeywordHits(s1) ==
  {i \in DOMAIN KeywordTable :
     strncmp0(str2upper(s1), KeywordTable[i].word, KeywordTable[i].len)}

\* lines 178-267: g.pvc is Personal_VALD_CONFIG, g.cfg the files of the
\* configuration directories, g.out the job script written so far
PersonalConfig(g) ==
  IF g.pvc \in g.cfg
    THEN g
    ELSE IF DefaultConfig \notin g.cfg
      THEN [g EXCEPT
              !.out = @ \o << JLine("echo ERROR: Wrong path to personal configuration",
                                    <<ResultName(g.number)>>, <<>>),
                              JLine("echo        Contact VALD administrator",
                                    <<ResultName(g.number)>>, <<>>) >>,
              !.kw = [@ EXCEPT !.PersonalConfiguration = 0]]
      ELSE [g EXCEPT
              !.cfg = @ \cup {g.pvc},
              !.out = @ \o << JLine("echo Configuration file has been created",
                                    <<ResultName(g.number)>>, g.pvc) >>]

\* SetKeyword(s1, fo, number): the new s1 and globals.  A matching test
\* clears s1, so no later test matches; without a match s1 is left
\* upper-cased.
SetKeyword(s1, g) ==
  IF KeywordHits(s1) = {}
    THEN [s1 |-> str2upper(s1), g |-> g]
    ELSE LET k == KeywordTable[CHOOSE i \in KeywordHits(s1) :
                                 \A j \in KeywordHits(s1) : i <= j]
             g1 == [g EXCEPT !.kw = [@ EXCEPT ![k.flag] = k.val]]
         IN  [s1 |-> <<>>,
              g |-> IF k.word = KeywordTable[3].word THEN PersonalConfig(g1) ELSE g1]

(***************************************************************************)
(* FindNearestModel.  A directory entry is the pair sscanf reads from its   *)
(* name with MODEL_NAME_FORMAT (temperature, gravity), or the empty tuple   *)
(* for a name that sscanf does not read two numbers from.                   *)
(***************************************************************************)
abs(x) == IF x < 0 THEN 0 - x ELSE x

IsModel(entry) == Len(entry) = 2

\* a mutation of the loop body: the gravity never breaks a tie
FNMStepNoGravity(entry, Teff, Logg, best) ==
  IF IsModel(entry) /\ abs(entry[1] - Teff) < abs(best[1] - Teff)
    THEN entry
    ELSE best

\* lines 501-512: the best pair after one directory entry
FNMStep(entry, Teff, Logg, best) ==
  IF ~IsModel(entry)
    THEN best
    ELSE IF abs(entry[1] - Teff) < abs(best[1] - Teff)
      THEN entry
      ELSE IF /\ abs(entry[1] - Teff) = abs(best[1] - Teff)
              /\ abs(entry[2] - Logg) < abs(best[2] - Logg)
        THEN entry
        ELSE best

\* lines 499-513: the loop over the directory from entry i on
RECURSIVE FNMScan(_, _, _, _, _)
FNMScan(dir, i, Teff, Logg, best) ==
  IF i > Len(dir)
    THEN best
    ELSE FNMScan(dir, i + 1, Teff, Logg, FNMStep(dir[i], Teff, Logg, best))

\* FindNearestModel(dirname, name, bestmod): the value returned and bestmod
FindNearestModel(dir, nm) ==
  LET best == FNMScan(dir, 1, nm[1], nm[2], <<0 - 1, 0 - 1>>)
  IN  IF best[1] >= 0 /\ best[2] >= 0
        THEN [ret |-> 1, bestmod |-> best]
        ELSE [ret |-> 0, bestmod |-> <<>>]

TeffValues == 0..4

LoggValues == 0..1

MaxDir == 3

DirEntries == {<<>>} \cup {<<t, g>> : t \in TeffValues, g \in LoggValues}

Directories == Concats({<<e>> : e \in DirEntries}, MaxDir)

FNMInit ==
  /\ MailIdle
  /\ DCIdle
  /\ pc = "FindNearestModel"
  /\ request = NOFILE
  /\ rd = 1
  /\ writable = TRUE
  /\ job = <<>>
  /\ number = 0
  /\ user = <<>>
  /\ Client_Name = <<>>
  /\ Personal_VALD_CONFIG = <<>>
  /\ kw = <<>>
  /\ cfg = {}
  /\ models \in Directories
  /\ request_type = UNKNOWN
  /\ error_state = 0
  /\ status = 0
  /\ run = 1
  /\ job1 = <<>>
  /\ wanted \in {<<t, g>> : t \in TeffValues, g \in LoggValues}
  /\ bestmod = <<>>
  /\ found = 0
  /\ request_file = <<>>
  /\ inputs = <<>>
  /\ stack = <<>>
  /\ nshow = 0

FNMCall ==
  /\ pc = "FindNearestModel"
  /\ found' = FindNearestModel(models, wanted).ret
  /\ bestmod' = FindNearestModel(models, wanted).bestmod
  /\ pc' = "FindNearestModel.return"
  /\ UNCHANGED << mail, pos, cl_register, cl_register_local, last_file, disk,
                  process, s, n_requests, n_requests_orig, has_begin_request,
                  has_end_request, is_mirror, fo, filename, address,
                  ClientName, ret, unclosed, start, owner, commits >>
  /\ UNCHANGED << request, rd, writable, job, number, user, Client_Name,
                  Personal_VALD_CONFIG, kw, cfg, models, request_type,
                  error_state, status, run, job1, wanted, request_file,
                  inputs, stack, nshow >>
  /\ UNCHANGED dcvars

SpecFNM == FNMInit /\ [][FNMCall]_vars

(***************************************************************************)
(* parserequest.c: the lines the request functions write.  g holds the      *)
(* globals and files a request function works on:                           *)
(*   kw, cfg, pvc, client   the option flags, the configuration files,      *)
(*                          Personal_VALD_CONFIG and Client_Name            *)
(*   number                 the request number                              *)
(*   out, inp               the lines written to the job script fo and to   *)
(*                          the input files fo1                             *)
(***************************************************************************)
EXIT_SUCCESS == 0

EXIT_FAILURE == 1

\* fprintf(fo, ...) of the lines ls
Out(g, ls) == [g EXCEPT !.out = @ \o ls]

\* fprintf(fo1, ...): what is written to the input file
In(g, file, what, val) ==
  [g EXCEPT !.inp = @ \o <<[file |-> file, what |-> what, val |-> val]>>]

\* echo ... >> result.NNNNNN
Echo(g, text, arg) == JLine(text, <<ResultName(g.number)>>, arg)

\* the species line, the configuration path and the flag line of an input
\* file (lines 665-684)
ConfigAndFlags(g, file, species) ==
  In(In(In(g, file, "species", species), file, "config",
        IF g.kw.PersonalConfiguration = 1 THEN g.pvc ELSE DefaultConfig),
     file, "flags",
     << g.kw.LongFormat + 3 * g.kw.Energy_in_inv_cm, g.kw.HaveRadiativeDamping,
        g.kw.HaveStarkDamping, g.kw.HaveVanderWaalsDamping, g.kw.HaveLande,
        g.kw.HaveTermDesignation, g.kw.ExtendedWaals, g.kw.ZeemanPattern,
        g.kw.StarkBroadening, g.kw.Wavelength_in_vac, g.kw.Wavelength_units,
        g.kw.Isotopic_scaling_of_gf, g.kw.HFS_splitting >>)

\* the wavelength range and the line limit of pres_in (lines 657-664)
RangeAndLimit(g, v) ==
  In(In(g, PresIn(g.number), "range", <<v.a, v.b>>),
     PresIn(g.number), "limit",
     <<IF g.kw.FTPretrieval = 1 THEN "MAX_LINES_PER_FTP"
       ELSE "MAX_LINES_PER_REQUEST">>)

\* the result goes to the FTP directory (lines 697-714)
FTPBlock(g, bib) ==
  << JLine("gzip", <<ClientFile(g.client, g.number, <<>>)>>, <<>>),
     JLine("mv to VALD_FTP_DIR",
           <<ClientFile(g.client, g.number, <<".","g","z">>)>>, <<>>),
     JLine("chmod a+r VALD_FTP_DIR/",
           <<ClientFile(g.client, g.number, <<".","g","z">>)>>, <<>>),
     JLine("mv " \o bib, <<ClientFile(g.client, g.number, <<".","b","i","b">>)>>, <<>>),
     JLine("gzip", <<ClientFile(g.client, g.number, <<".","b","i","b">>)>>, <<>>),
     JLine("mv to VALD_FTP_DIR",
           <<ClientFile(g.client, g.number, <<".","b","i","b",".","g","z">>)>>, <<>>),
     JLine("chmod a+r VALD_FTP_DIR/",
           <<ClientFile(g.client, g.number, <<".","b","i","b",".","g","z">>)>>, <<>>),
     Echo(g, "echo VALD processed your request number", Fmtli(g.number)),
     Echo(g, "echo Results can be retrieved with a Web browser at", <<>>),
     JLine("echo VALD_FTP/",
           <<ClientFile(g.client, g.number, <<".","g","z">>), ResultName(g.number)>>, <<>>),
     JLine("echo VALD_FTP/",
           <<ClientFile(g.client, g.number, <<".","b","i","b",".","g","z">>), ResultName(g.number)>>, <<>>),
     Echo(g, "echo This link will be valid for 48 hours only", <<>>) >>

\* the bibliography goes into the mail as an attachment (lines 726-736)
MailBlock(g, bib, closing) ==
  << JLine("mv " \o bib, <<ClientFile(g.client, g.number, <<".","b","i","b">>)>>, <<>>),
     JLine("gzip", <<ClientFile(g.client, g.number, <<".","b","i","b">>)>>, <<>>),
     JLine("echo Content-Disposition: attachment; filename=",
           <<ClientFile(g.client, g.number, <<".","b","i","b",".","g","z">>), ResultName(g.number)>>, <<>>),
     Echo(g, "echo Content-Type: application/octet-stream", <<>>),
     Echo(g, "echo Content-Transfer-Encoding: base64", <<>>),
     Echo(g, "echo empty line", <<>>),
     JLine("BASE64",
           <<ClientFile(g.client, g.number, <<".","b","i","b",".","g","z">>), ResultName(g.number)>>, <<>>),
     Echo(g, closing, <<>>),
     JLine("rm", <<ClientFile(g.client, g.number, <<".","b","i","b",".","g","z">>)>>, <<>>) >>

\* the preselect pipeline of ExtractAll and ExtractElement with what
\* follows it (lines 687-785)
ExtractLines(g) ==
  (IF g.kw.HFS_splitting = 1
     THEN IF g.kw.FTPretrieval = 1
            THEN << JLine("preselect | format | hfs_split | post_hfs_format >",
                          <<PresIn(g.number), ClientFile(g.client, g.number, <<>>)>>,
                          <<>>) >>
                 \o FTPBlock(g, "POST_HFS_BIB_FILE")
            ELSE << JLine("preselect | format | hfs_split | post_hfs_format >>",
                          <<PresIn(g.number), ResultName(g.number)>>, <<>>),
                    Echo(g, "echo --==MailSection==", <<>>) >>
                 \o MailBlock(g, "POST_HFS_BIB_FILE", "echo --===MailSection==--")
     ELSE IF g.kw.FTPretrieval = 1
            THEN << JLine("preselect | format >",
                          <<PresIn(g.number), ClientFile(g.client, g.number, <<>>)>>,
                          <<>>) >>
                 \o FTPBlock(g, "PRESFORMAT_BIB_FILE")
            ELSE << JLine("preselect | format >>",
                          <<PresIn(g.number), ResultName(g.number)>>, <<>>),
                    Echo(g, "echo --==MailSection==", <<>>) >>
                 \o MailBlock(g, "PRESFORMAT_BIB_FILE", "echo --===MailSection==--"))
  \o << JLine("rm", <<PresIn(g.number)>>, <<>>) >>

\* what a request function returns: its value, the position of fi and g
Returns(r, i, g) == [ret |-> r, i |-> i, g |-> g]

(***************************************************************************)
(* ExtractAll (lines 625-793); i is the next line of fi.                     *)
(***************************************************************************)
\* lines 644-786: the line s1 starts like a number
ExtractAllRange(g, i, v) ==
  IF v.n # 2
    THEN Returns(EXIT_FAILURE, i,
                 Out(g, <<Echo(g, "echo FAILURE: Cannot read wavelength range", <<>>)>>))
    ELSE IF v.a > v.b \/ v.a <= 0
      THEN Returns(EXIT_FAILURE, i,
                   Out(g, <<Echo(g, "echo FAILURE: Bad wavelength range", <<>>)>>))
      ELSE Returns(EXIT_SUCCESS, i,
                   Out(ConfigAndFlags(RangeAndLimit(g, v), PresIn(g.number), <<>>),
                       ExtractLines(g)))

RECURSIVE ExtractAllFrom(_, _, _)
\* lines 635-643 for the line k was computed from by SetKeyword
ExtractAllLine(req, i, k) ==
  IF k.s1 = <<>>
    THEN ExtractAllFrom(req, i + 1, k.g)
    ELSE IF ~NumericStart(k.s1)
      THEN ExtractAllFrom(req, i + 1,
             Out(k.g, <<Echo(k.g, "echo WARNING: Unknown option (ignored)", k.s1)>>))
      ELSE ExtractAllRange(k.g, i + 1, sscanf2(k.s1))

ExtractAllFrom(req, i, g) ==
  IF i > Len(req)
    THEN Returns(EXIT_FAILURE, i,
                 Out(g, << Echo(g, "echo FAILURE: Cannot read wavelength range", <<>>),
                           JLine("rm", <<PresIn(g.number)>>, <<>>) >>))
    ELSE ExtractAllLine(req, i, SetKeyword(compressN(req[i], 80), g))

ExtractAll(req, i, g) == ExtractAllFrom(req, i, g)

(***************************************************************************)
(* The loop ExtractElement and ExtractStellar read each pair of numbers     *)
(* with (lines 804-816, 990-1002, 1048-1058, 1077-1087): the keyword lines  *)
(* and the lines that do not start like a number are passed over, the       *)
(* latter with the message warn.  The result is the line found, or eof.     *)
(***************************************************************************)
RECURSIVE ReadNumeric(_, _, _, _)
ReadNumericLine(req, i, k, warn) ==
  IF k.s1 = <<>>
    THEN ReadNumeric(req, i + 1, k.g, warn)
    ELSE IF ~NumericStart(k.s1)
      THEN ReadNumeric(req, i + 1, Out(k.g, <<Echo(k.g, warn, k.s1)>>), warn)
      ELSE [eof |-> FALSE, i |-> i + 1, g |-> k.g, s1 |-> k.s1]

ReadNumeric(req, i, g, warn) ==
  IF i > Len(req)
    THEN [eof |-> TRUE, i |-> i, g |-> g, s1 |-> <<>>]
    ELSE ReadNumericLine(req, i, SetKeyword(compressN(req[i], 80), g), warn)

\* the banner of a failure and, where the code has it, rm pres_in
Failure(i, g, text, rm) ==
  Returns(EXIT_FAILURE, i,
          Out(g, <<Echo(g, text, <<>>)>>
                 \o (IF rm THEN <<JLine("rm", <<PresIn(g.number)>>, <<>>)>> ELSE <<>>)))

(***************************************************************************)
(* ExtractElement (lines 795-979)                                            *)
(***************************************************************************)
\* lines 845-978: the species is taken from the first line that follows the
\* range; s1 still holds the range when compress_species leaves it alone
RECURSIVE ExtractElementSpecies(_, _, _, _)
ExtractElementSpecies(req, i, s1, g) ==
  IF i > Len(req)
    THEN Returns(EXIT_FAILURE, i,
                 Out(g, << JLine("rm", <<PresIn(g.number)>>, <<>>),
                           Echo(g, "echo FAILURE: Element name is missing", <<>>) >>))
    ELSE IF compress_species(s1, req[i]) = <<>>
      THEN ExtractElementSpecies(req, i + 1, <<>>, g)
      ELSE Returns(EXIT_SUCCESS, i + 1,
                   Out(ConfigAndFlags(g, PresIn(g.number),
                                      compress_species(s1, req[i])),
                       ExtractLines(g)))

\* lines 817-843
ExtractElementValues(req, r, v) ==
  IF v.n # 2
    THEN Failure(r.i, r.g, "echo FAILURE: Cannot read wavelength range", FALSE)
    ELSE IF v.a > v.b \/ v.a <= 0
      THEN Failure(r.i, r.g, "echo FAILURE: Bad wavelength range", FALSE)
      ELSE ExtractElementSpecies(req, r.i, r.s1, RangeAndLimit(r.g, v))

ExtractElementRange(req, r) ==
  IF r.eof
    THEN Failure(r.i, r.g, "echo FAILURE: Cannot read wavelength range", FALSE)
    ELSE ExtractElementValues(req, r, sscanf2(r.s1))

ExtractElement(req, i, g) ==
  ExtractElementRange(req,
    ReadNumeric(req, i, g, "echo WARNING: Unknown option (ignored)"))

(***************************************************************************)
(* GetElementNumber and CheckAbund (lines 396-476)                           *)
(***************************************************************************)
elements ==
  <<
     <<"H"," ">>, <<"H","E">>, <<"L","I">>, <<"B","E">>, <<"B"," ">>, <<"C"," ">>,
     <<"N"," ">>, <<"O"," ">>, <<"F"," ">>, <<"N","E">>, <<"N","A">>, <<"M","G">>,
     <<"A","L">>, <<"S","I">>, <<"P"," ">>, <<"S"," ">>, <<"C","L">>, <<"A","R">>,
     <<"K"," ">>, <<"C","A">>, <<"S","C">>, <<"T","I">>, <<"V"," ">>, <<"C","R">>,
     <<"M","N">>, <<"F","E">>, <<"C","O">>, <<"N","I">>, <<"C","U">>, <<"Z","N">>,
     <<"G","A">>, <<"G","E">>, <<"A","S">>, <<"S","E">>, <<"B","R">>, <<"K","R">>,
     <<"R","B">>, <<"S","R">>, <<"Y"," ">>, <<"Z","R">>, <<"N","B">>, <<"M","O">>,
     <<"T","C">>, <<"R","U">>, <<"R","H">>, <<"P","D">>, <<"A","G">>, <<"C","D">>,
     <<"I","N">>, <<"S","N">>, <<"S","B">>, <<"T","E">>, <<"I"," ">>, <<"X","E">>,
     <<"C","S">>, <<"B","A">>, <<"L","A">>, <<"C","E">>, <<"P","R">>, <<"N","D">>,
     <<"P","M">>, <<"S","M">>, <<"E","U">>, <<"G","D">>, <<"T","B">>, <<"D","Y">>,
     <<"H","O">>, <<"E","R">>, <<"T","M">>, <<"Y","B">>, <<"L","U">>, <<"H","F">>,
     <<"T","A">>, <<"W"," ">>, <<"R","E">>, <<"O","S">>, <<"I","R">>, <<"P","T">>,
     <<"A","U">>, <<"H","G">>, <<"T","L">>, <<"P","B">>, <<"B","I">>, <<"P","O">>,
     <<"A","T">>, <<"R","N">>, <<"F","R">>, <<"R","A">>, <<"A","C">>, <<"T","H">>,
     <<"P","A">>, <<"U"," ">>, <<"N","P">>, <<"P","U">>, <<"A","M">>, <<"C","M">>,
     <<"B","K">>, <<"C","F">>, <<"E","S">>
  >>

\* the number of the element elname, or -1
GetElementNumber(elname) ==
  IF \E e \in DOMAIN elements : strncmp0(str2upper(elname), elements[e], 2)
    THEN CHOOSE e \in DOMAIN elements :
           /\ strncmp0(str2upper(elname), elements[e], 2)
           /\ \A d \in DOMAIN elements :
                strncmp0(str2upper(elname), elements[d], 2) => e <= d
    ELSE 0 - 1

\* "%.2f" of a value held in hundredths
FmtF2(v) ==
  (IF v < 0 THEN <<"-">> ELSE <<>>)
  \o DigitsOf(abs(v) \div 100) \o <<".">> \o ZeroPad(DigitsOf(abs(v) % 100), 2)

\* strchr(next, ','): the index of the first comma of str from next on, or 0
strchrComma(str, next) ==
  IF \E c \in next..Len(str) : str[c] = ","
    THEN CHOOSE c \in next..Len(str) :
           str[c] = "," /\ \A d \in next..(c - 1) : str[d] # ","
    ELSE 0

\* the pointer CheckAbund returns, 0 for NULL; atEnd: the test *next=='\0'
AfterComma(str, next, atEnd) ==
  IF strchrComma(str, next) = 0
    THEN 0
    ELSE IF atEnd /\ strchrComma(str, next) + 1 > Len(str)
      THEN 0
      ELSE strchrComma(str, next) + 1

\* sscanf(from, "%lg", &abn) and sprintf(..., ":%.2f'," abn) after the name;
\* abn keeps the value junk it had when nothing is converted
AbundOuts(nm, str, from, junk) ==
  nm \o <<":">>
     \o FmtF2(IF ScanLg(str, from).ok THEN ScanLg(str, from).val ELSE junk)
     \o <<"'", ",">>

IsMH(str, next) ==
  \/ strncmp0(SubSeq(str, next, Len(str)), <<"M","H",":">>, 3)
  \/ strncmp0(SubSeq(str, next, Len(str)), <<"m","/","h",":">>, 4)

\* CheckAbund(next, outs) for next > 0 pointing into str: the pointer
\* returned and outs
CheckAbund(str, next, junk) ==
  IF Chr(str, next + 1) = ":"
    THEN IF GetElementNumber(<<Chr(str, next), " ">>) > 0
           THEN [next |-> AfterComma(str, next, TRUE),
                 outs |-> AbundOuts(<<"'", toupper(Chr(str, next))>>,
                                    str, next + 2, junk)]
           ELSE [next |-> AfterComma(str, next, FALSE),
                 outs |-> SubSeq(str, next, Min(Len(str), next + 2))]
    ELSE IF IsMH(str, next)
      THEN [next |-> AfterComma(str, next, TRUE),
            outs |-> AbundOuts(<<"'","M","/","H">>, str, next + 3, junk)]
      ELSE IF /\ Chr(str, next + 2) = ":"
              /\ GetElementNumber(<<Chr(str, next), Chr(str, next + 1)>>) > 0
        THEN [next |-> AfterComma(str, next, TRUE),
              outs |-> AbundOuts(<<"'", toupper(Chr(str, next)),
                                   tolower(Chr(str, next + 1))>>,
                                 str, next + 3, junk)]
        ELSE [next |-> AfterComma(str, next, FALSE),
              outs |-> SubSeq(str, next, Min(Len(str), next + 2))]

(***************************************************************************)
(* ExtractStellar (lines 981-1239).  Numbers are held in hundredths, which  *)
(* is exact for the values with at most two decimals the requests here use. *)
(***************************************************************************)
SelectInput == <<"s","e","l","e","c","t",".","i","n","p","u","t">>

\* lines 1166-1237
StellarLines(g) ==
  << JLine(IF g.kw.HFS_splitting = 1
             THEN "preselect | select | hfs_split | post_hfs_format >>"
             ELSE "preselect | select >>",
           <<PresIn(g.number), ResultName(g.number)>>, <<>>) >>
  \o (IF g.kw.FTPretrieval = 1
        THEN << JLine("mv select.out", <<ClientFile(g.client, g.number, <<>>)>>, <<>>),
                JLine("rm", <<PresIn(g.number)>>, <<>>) >>
             \o FTPBlock(g, IF g.kw.HFS_splitting = 1 THEN "POST_HFS_BIB_FILE"
                            ELSE "SELECT_BIB_FILE")
        ELSE << JLine("cat select.out >>", <<ResultName(g.number)>>, <<>>),
                Echo(g, "echo --==MailSection==", <<>>),
                JLine("rm select.out", <<PresIn(g.number)>>, <<>>) >>
             \o MailBlock(g, IF g.kw.HFS_splitting = 1 THEN "POST_HFS_BIB_FILE"
                             ELSE "SELECT_BIB_FILE",
                          "echo --==MailSection==--"))

\* lines 1157-1238: the end of select.input and the pipeline
StellarFinish(i, g, col) ==
  Returns(EXIT_SUCCESS, i,
    Out(In(In(IF col > 66 THEN In(g, SelectInput, "newline", <<>>) ELSE g,
              SelectInput, "end", <<"'END'", "'Synth'", "'select.out'">>),
           SelectInput, "limit",
           <<IF g.kw.FTPretrieval = 1 THEN "MAX_LINES_PER_FTP"
             ELSE "MAX_LINES_PER_REQUEST">>),
        StellarLines(g)))

\* lines 1140-1155: the tokens of one line from next on; col is the
\* counter i of the characters on the current line of select.input
RECURSIVE AbundTokens(_, _, _, _, _)
AbundToken(str, c, g, col, junk) ==
  IF Len(c.outs) >= 5
    THEN AbundTokens(str, c.next,
           In(IF col > 66 THEN In(g, SelectInput, "newline", <<>>) ELSE g,
              SelectInput, "abundance", c.outs),
           (IF col > 66 THEN 0 ELSE col) + Len(c.outs), junk)
    ELSE AbundTokens(str, c.next,
           Out(g, <<Echo(g, "echo WARNING: Never heard of element:", c.outs)>>),
           col, junk)

AbundTokens(str, next, g, col, junk) ==
  IF next = 0
    THEN [g |-> g, col |-> col]
    ELSE AbundToken(str, CheckAbund(str, next, junk), g, col, junk)

\* lines 1131-1156: the abundance lines up to end request or the end of fi
RECURSIVE StellarAbundances(_, _, _, _, _)
StellarAbundLine(req, i, k, col, junk) ==
  IF k.s1 = <<>>
    THEN StellarAbundances(req, i + 1, k.g, col, junk)
    ELSE IF strncmp0(k.s1, <<"E","N","D","R","E","Q","U","E","S","T">>, 10)
      THEN StellarFinish(i + 1, k.g, col)
      ELSE StellarAbundances(req, i + 1,
             AbundTokens(k.s1, 1, k.g, col, junk).g,
             AbundTokens(k.s1, 1, k.g, col, junk).col, junk)

StellarAbundances(req, i, g, col, junk) ==
  IF i > Len(req)
    THEN StellarFinish(i, g, col)
    ELSE StellarAbundLine(req, i, SetKeyword(compressN(req[i], 320), g), col, junk)

\* iteff=teff; if(((int)(teff*10))%10>5) iteff++;  (line 1096)
RoundTeff(t) ==
  IF t < 0 THEN 0 - ((0 - t) \div 100)
  ELSE (t \div 100) + (IF (t \div 10) % 10 > 5 THEN 1 ELSE 0)

\* log_g=grav*10; if(((int)(grav*100))%10>5) log_g++;  (line 1097)
RoundLogg(h) ==
  IF h < 0 THEN 0 - ((0 - h) \div 10)
  ELSE (h \div 10) + (IF h % 10 > 5 THEN 1 ELSE 0)

\* lines 1106-1129 with the result f of FindNearestModel for the model nm
StellarModel(req, r, v, nm, f, junk) ==
  IF f.ret = 0
    THEN Failure(r.i, r.g,
                 "echo FAILURE: VALD could not find any atmosphere model", TRUE)
    ELSE IF v.a < 0
      THEN Failure(r.i,
             In(IF f.bestmod # nm
                  THEN Out(r.g, <<Echo(r.g, "echo WARNING: VALD does not have the exact model, will use instead", f.bestmod)>>)
                  ELSE r.g,
                SelectInput, "model", f.bestmod),
             "echo FAILURE: Cannot read Teff and gravity", TRUE)
      ELSE StellarAbundances(req, r.i,
             In(IF f.bestmod # nm
                  THEN Out(r.g, <<Echo(r.g, "echo WARNING: VALD does not have the exact model, will use instead", f.bestmod)>>)
                  ELSE r.g,
                SelectInput, "model", f.bestmod),
             0, junk)

\* lines 1088-1105
StellarTeffValues(req, r, v, junk) ==
  IF v.n # 2
    THEN Failure(r.i, r.g, "echo FAILURE: Cannot read Teff and gravity", TRUE)
    ELSE StellarModel(req, r, v, <<RoundTeff(v.a), RoundLogg(v.b)>>,
                      FindNearestModel(r.g.models,
                                       <<RoundTeff(v.a), RoundLogg(v.b)>>), junk)

\* lines 1076-1087, 1124-1129
StellarTeff(req, r, junk) ==
  IF r.eof
    THEN Failure(r.i, r.g, "echo FAILURE: Cannot read Teff and gravity", TRUE)
    ELSE StellarTeffValues(req, r, sscanf2(r.s1), junk)

\* lines 1059-1075; w is the wavelength range
StellarCriterionValues(req, r, v, w, junk) ==
  IF v.n # 2
    THEN Failure(r.i, r.g, "echo FAILURE: Cannot read criterion and Vmicro", TRUE)
    ELSE IF v.b < 0
      THEN Failure(r.i, In(r.g, SelectInput, "range", <<w.a, w.b, v.a, v.b>>),
                   "echo FAILURE: Cannot read criterion and Vmicro", TRUE)
      ELSE StellarTeff(req,
             ReadNumeric(req, r.i,
                         In(r.g, SelectInput, "range", <<w.a, w.b, v.a, v.b>>),
                         "echo FAILURE: Unknown option:"),
             junk)

\* lines 1046-1058, 1069-1075
StellarCriterion(req, r, w, junk) ==
  IF r.eof
    THEN Failure(r.i, r.g, "echo FAILURE: Cannot read criterion and Vmicro", TRUE)
    ELSE StellarCriterionValues(req, r, sscanf2(r.s1), w, junk)

\* lines 1003-1038
StellarRangeValues(req, r, v, junk) ==
  IF v.n # 2
    THEN Failure(r.i, r.g, "echo FAILURE: Cannot read wavelength range", FALSE)
    ELSE IF v.a > v.b \/ v.a <= 0
      THEN Failure(r.i, r.g, "echo FAILURE: Bad wavelength range", FALSE)
      ELSE StellarCriterion(req,
             ReadNumeric(req, r.i,
               ConfigAndFlags(In(In(r.g, PresIn(r.g.number), "range", <<v.a, v.b>>),
                                 PresIn(r.g.number), "limit", <<0>>),
                              PresIn(r.g.number), <<>>),
               "echo FAILURE: Unknown option:"),
             v, junk)

\* lines 988-1002, 1039-1044
StellarRange(req, r, junk) ==
  IF r.eof
    THEN Failure(r.i, r.g, "echo FAILURE: Cannot read wavelength range", TRUE)
    ELSE StellarRangeValues(req, r, sscanf2(r.s1), junk)

\* junk: the value the uninitialised abn of CheckAbund holds
ExtractStellar(req, i, g, junk) ==
  StellarRange(req, ReadNumeric(req, i, g, "echo FAILURE: Unknown option:"), junk)

(***************************************************************************)
(* ShowLine (lines 527-623).  ishow numbers the entries of the request;     *)
(* tail is what follows " -HFS" in HFS_switch, which strncpy leaves without *)
(* a terminating zero.                                                      *)
(***************************************************************************)
Blanks33 == [b \in 1..33 |-> " "]

EndRequest == <<"e","n","d","r","e","q","u","e","s","t">>

\* lines 543-566: the lines up to the one with the central wavelength and
\* the window.  first: no line was read yet (end_of_req)
RECURSIVE ShowLineWindow(_, _, _, _)
ShowLineWindowLine(req, i, k) ==
  IF strncmp0(str2lower(k.s1), EndRequest, 10)
    THEN [kind |-> "endrequest", i |-> i + 1, g |-> k.g, s1 |-> <<>>]
    ELSE IF k.s1 = <<>>
      THEN ShowLineWindow(req, i + 1, k.g, FALSE)
      ELSE IF ~NumericStart(k.s1)
        THEN ShowLineWindow(req, i + 1,
               Out(k.g, <<Echo(k.g, "echo WARNING: Unknown option (ignored)",
                              str2lower(k.s1))>>),
               FALSE)
        ELSE [kind |-> "number", i |-> i + 1, g |-> k.g, s1 |-> str2lower(k.s1)]

ShowLineWindow(req, i, g, first) ==
  IF i > Len(req)
    THEN [kind |-> IF first THEN "end_of_req" ELSE "eof", i |-> i, g |-> g,
          s1 |-> <<>>]
    ELSE ShowLineWindowLine(req, i, SetKeyword(compressN(req[i], 80), g))

\* lines 589-608: the entry has a species
ShowLinePipeline(g, ishow, hfs, tail) ==
  << JLine(IF g.kw.Isotopic_scaling_of_gf # 0
             THEN IF hfs # 0 THEN "showline -HFS" ELSE "showline"
             ELSE "showline -noisotopic",
           <<ShowIn(g.number, ishow), ResultName(g.number)>>,
           IF g.kw.Isotopic_scaling_of_gf # 0 /\ hfs # 0 THEN tail ELSE <<>>),
     JLine("rm", <<ShowIn(g.number, ishow)>>, <<>>),
     Echo(g, "echo --==MailSection==", <<>>) >>

RECURSIVE ShowLineFrom(_, _, _, _, _)
\* lines 577-615: the lines after the window up to the species
RECURSIVE ShowLineSpecies(_, _, _, _, _, _)
ShowLineSpeciesLine(req, i, k, ishow, hfs, tail) ==
  IF strncmp0(str2lower(req[i]), EndRequest, 10)
    THEN Returns(EXIT_SUCCESS, i + 1, k.g)
    ELSE IF compress_species(Blanks33, req[i]) = <<>>
      THEN ShowLineSpecies(req, i + 1, k.g, ishow, hfs, tail)
      ELSE ShowLineFrom(req, i + 1,
             Out(In(In(k.g, ShowIn(k.g.number, ishow), "species",
                       compress_species(Blanks33, req[i])),
                    ShowIn(k.g.number, ishow), "config",
                    IF k.g.kw.PersonalConfiguration # 0 THEN k.g.pvc
                    ELSE DefaultConfig),
                 ShowLinePipeline(k.g, ishow, hfs, tail)),
             ishow + 1, tail)

ShowLineSpecies(req, i, g, ishow, hfs, tail) ==
  IF i > Len(req)
    THEN ShowLineFrom(req, i,
           Out(g, << JLine("rm", <<ShowIn(g.number, ishow)>>, <<>>),
                     Echo(g, "echo WARNING: Element name is missing (ignored)", <<>>),
                     Echo(g, "echo --==MailSection==", <<>>) >>),
           ishow + 1, tail)
    ELSE ShowLineSpeciesLine(req, i,
           SetKeyword(compress_species(Blanks33, req[i]), g), ishow, hfs, tail)

\* lines 567-576: the entry is ignored
ShowLineIgnored(req, i, g, ishow, tail) ==
  ShowLineFrom(req, i,
    Out(g, <<Echo(g, "echo WARNING: Cannot read central wavelength and scan window (entry ignored)", <<>>)>>),
    ishow + 1, tail)

\* lines 557-576 with the numbers v scanned from the line
ShowLineValues(req, a, v, ishow, tail) ==
  IF v.n # 2
    THEN ShowLineIgnored(req, a.i, a.g, ishow, tail)
    ELSE IF v.a < 0
      THEN ShowLineIgnored(req, a.i,
             In(a.g, ShowIn(a.g.number, ishow), "range", <<v.a, v.b>>),
             ishow, tail)
      ELSE ShowLineSpecies(req, a.i,
             In(a.g, ShowIn(a.g.number, ishow), "range", <<v.a, v.b>>),
             ishow, a.g.kw.HFS_splitting, tail)

ShowLineEntry(req, a, ishow, tail) ==
  IF a.kind \in {"endrequest", "end_of_req"}
    THEN Returns(EXIT_SUCCESS, a.i, a.g)
    ELSE IF a.kind = "eof"
      THEN ShowLineIgnored(req, a.i, a.g, ishow, tail)
      ELSE ShowLineValues(req, a, sscanf2(a.s1), ishow, tail)

\* lines 535-541: one turn of while(1)
ShowLineFrom(req, i, g, ishow, tail) ==
  ShowLineEntry(req,
    ShowLineWindow(req, i,
      Out(g, <<Echo(g, "echo ===============", <<>>)>>), TRUE),
    ishow, tail)

ShowLine(req, i, g, tail) == ShowLineFrom(req, i, g, 0, tail)

(***************************************************************************)
(* ShowLine turn by turn: what one turn of while(1) (lines 535-621) does   *)
(* from line i with ishow entries behind it.  done: the turn returned;     *)
(* otherwise the loop goes round with the line index, the globals and the  *)
(* entry number of the result.                                             *)
(***************************************************************************)
ShowLineGoesRound(i, g, ishow) ==
  [done |-> FALSE, ret |-> EXIT_SUCCESS, i |-> i, g |-> g, ishow |-> ishow]

\* lines 577-621: the second loop of the turn
RECURSIVE ShowLineTurnSpecies(_, _, _, _, _, _)
ShowLineTurnSpecies(req, i, g, ishow, hfs, tail) ==
  IF i > Len(req)
    THEN ShowLineGoesRound(i,
           Out(g, << JLine("rm", <<ShowIn(g.number, ishow)>>, <<>>),
                     Echo(g, "echo WARNING: Element name is missing (ignored)", <<>>),
                     Echo(g, "echo --==MailSection==", <<>>) >>),
           ishow + 1)
    ELSE IF strncmp0(str2lower(req[i]), EndRequest, 10)
      THEN [done |-> TRUE, ret |-> EXIT_SUCCESS, i |-> i + 1,
            g |-> SetKeyword(compress_species(Blanks33, req[i]), g).g,
            ishow |-> ishow]
      ELSE IF compress_species(Blanks33, req[i]) = <<>>
        THEN ShowLineTurnSpecies(req, i + 1,
               SetKeyword(compress_species(Blanks33, req[i]), g).g,
               ishow, hfs, tail)
        ELSE ShowLineGoesRound(i + 1,
               Out(In(In(SetKeyword(compress_species(Blanks33, req[i]), g).g,
                         ShowIn(g.number, ishow), "species",
                         compress_species(Blanks33, req[i])),
                      ShowIn(g.number, ishow), "config",
                      IF SetKeyword(compress_species(Blanks33, req[i]), g).g.kw.PersonalConfiguration # 0
                        THEN g.pvc ELSE DefaultConfig),
                   ShowLinePipeline(
                     SetKeyword(compress_species(Blanks33, req[i]), g).g,
                     ishow, hfs, tail)),
               ishow + 1)

\* lines 567-576: the turn after the first loop
ShowLineTurnEntry(req, a, v, ishow, tail) ==
  IF a.kind \in {"endrequest", "end_of_req"}
    THEN [done |-> TRUE, ret |-> EXIT_SUCCESS, i |-> a.i, g |-> a.g,
          ishow |-> ishow]
    ELSE IF a.kind = "eof" \/ v.n # 2 \/ v.a < 0
      THEN ShowLineGoesRound(a.i,
             Out(IF a.kind # "eof" /\ v.n = 2
                   THEN In(a.g, ShowIn(a.g.number, ishow), "range", <<v.a, v.b>>)
                   ELSE a.g,
                 <<Echo(a.g, "echo WARNING: Cannot read central wavelength and scan window (entry ignored)", <<>>)>>),
             ishow + 1)
      ELSE ShowLineTurnSpecies(req, a.i,
             In(a.g, ShowIn(a.g.number, ishow), "range", <<v.a, v.b>>),
             ishow, a.g.kw.HFS_splitting, tail)

\* the turn without the return at the end of the request (line 569)
ShowLineTurnNoEnd(req, a, ishow, tail) ==
  ShowLineTurnEntry(req, [a EXCEPT !.kind = IF @ = "end_of_req" THEN "eof" ELSE @],
                    sscanf2(a.s1), ishow, tail)

\* lines 535-566: the turn up to the end of the first loop
ShowLineTurnWindow(req, a, ishow, tail) ==
  ShowLineTurnEntry(req, a, sscanf2(a.s1), ishow, tail)

ShowLineTurn(req, i, g, ishow, tail) ==
  ShowLineTurnWindow(req,
    ShowLineWindow(req, i,
      Out(g, <<Echo(g, "echo ===============", <<>>)>>), TRUE),
    ishow, tail)

(***************************************************************************)
(* main of parserequest (lines 1241-1390)                                    *)
(***************************************************************************)
\* RemoveMeta (lines 150-162)
RemoveMeta(str) ==
  [c \in 1..Len(str) |->
     IF str[c] \in {";", "&", "|", ">", "<", "\"", "\n", "\r"} THEN " " ELSE str[c]]

\* strstr(str, pat): the index of the first occurrence of pat, or 0
strstr(str, pat) ==
  IF \E c \in 1..(Len(str) - Len(pat) + 1) : SubSeq(str, c, c + Len(pat) - 1) = pat
    THEN CHOOSE c \in 1..(Len(str) - Len(pat) + 1) :
           /\ SubSeq(str, c, c + Len(pat) - 1) = pat
           /\ \A d \in 1..(c - 1) : SubSeq(str, d, d + Len(pat) - 1) # pat
    ELSE 0

Local == <<"_","l","o","c","a","l">>

\* lines 1301-1305
ClientNameOf(arg) ==
  IF strstr(arg, Local) = 0 THEN arg ELSE SubSeq(arg, 1, strstr(arg, Local) - 1)

\* lines 1307-1314
PersonalConfigOf(arg) ==
  IF strstr(arg, Local) = 0
    THEN arg \o <<".","c","f","g">>
    ELSE SubSeq(arg, 1, strstr(arg, Local) - 1) \o <<".","c","f","g","_","l","o","c","a","l">>

\* lines 1276-1278
IsSubject(str) ==
  \/ strncmp0(str, <<"S","U","B","J","E","C","T",":"," ">>, 9)
  \/ strncmp0(str, <<"S","u","b","j","e","c","t",":"," ">>, 9)
  \/ strncmp0(str, <<"s","u","b","j","e","c","t",":"," ">>, 9)

\* lines 1280-1281: the text between "Re: " and the closing quote of
\* subject.  The copy starts at the closing quote, and the quote replaces
\* the last character.  strncpy writes no terminating zero when the line
\* has 68 characters or more after "Subject: ": the text then runs on into
\* what subject[120], never initialised, holds behind the copy.
SubjectAfter(subj, str) ==
  IF Len(str) - 9 < 68
    THEN subj \o SubSeq(RemoveMeta(str), 10, Len(str) - 1)
    ELSE SubSeq(subj \o SubSeq(RemoveMeta(str), 10, 77) \o stack.subject, 1,
                Len(subj) + 68 + Len(stack.subject) - 1)

\* lines 1273-1317: the text of subject, whether begin request was found,
\* and the position of fi after the loop
RECURSIVE FindBegin(_, _, _)
FindBeginLine(req, i, subj) ==
  IF strncmp0(str2lower(compressN(req[i], 80)), <<"b","e","g","i","n","r","e","q","u","e","s","t">>, 12)
    THEN [request_ON |-> 1, i |-> i + 1, subject |-> subj]
    ELSE FindBegin(req, i + 1, subj)

FindBegin(req, i, subj) ==
  IF i > Len(req)
    THEN [request_ON |-> 0, i |-> i, subject |-> subj]
    ELSE FindBeginLine(req, i,
           IF IsSubject(req[i]) THEN SubjectAfter(subj, req[i]) ELSE subj)

\* lines 1286-1298
Header(n, subj, arg1) ==
  << JLine("echo Subject: Re: >", <<ResultName(n)>>, subj),
     JLine("echo Mime-Version: 1.0", <<ResultName(n)>>, <<>>),
     JLine("echo Content-Type: multipart/mixed", <<ResultName(n)>>, <<>>),
     JLine("echo empty line", <<ResultName(n)>>, <<>>),
     JLine("echo --==MailSection==", <<ResultName(n)>>, <<>>),
     JLine("echo Content-Type: text/plain", <<ResultName(n)>>, <<>>),
     JLine("echo empty line", <<ResultName(n)>>, <<>>),
     JLine("echo =============", <<JobName(n), ResultName(n)>>, <<>>),
     JLine("PROG_TYPE_REQUEST", <<arg1, ResultName(n)>>, <<>>),
     JLine("touch err.log", <<>>, <<>>) >>

\* lines 1320-1323
NoBegin(n, subj) ==
  << JLine("echo Subject: Re: >", <<ResultName(n)>>, subj),
     JLine("echo Syntax error", <<ResultName(n)>>, <<>>),
     JLine("echo FAILED: No begin request statement", <<ResultName(n)>>, <<>>) >>

SHOW_LINE == "SHOW_LINE"

EXTRACT_ALL == "EXTRACT_ALL"

EXTRACT_ELEMENT == "EXTRACT_ELEMENT"

EXTRACT_STELLAR == "EXTRACT_STELLAR"

\* lines 1332-1356
TypeOf(s1) ==
  IF strncmp0(s1, <<"s","h","o","w","l","i","n","e">>, 8) THEN SHOW_LINE
  ELSE IF strncmp0(s1, <<"e","x","t","r","a","c","t","a","l","l">>, 10) THEN EXTRACT_ALL
  ELSE IF strncmp0(s1, <<"e","x","t","r","a","c","t","e","l","e","m","e","n","t">>, 14) THEN EXTRACT_ELEMENT
  ELSE IF strncmp0(s1, <<"e","x","t","r","a","c","t","s","t","e","l","l","a","r">>, 14) THEN EXTRACT_STELLAR
  ELSE UNKNOWN

\* lines 1329-1357: request_type and the position of fi after the loop
RECURSIVE ReadType(_, _)
ReadType(req, i) ==
  IF i > Len(req)
    THEN [request_type |-> UNKNOWN, i |-> i]
    ELSE IF TypeOf(str2lower(compressN(req[i], 80))) # UNKNOWN
      THEN [request_type |-> TypeOf(str2lower(compressN(req[i], 80))), i |-> i + 1]
      ELSE ReadType(req, i + 1)

(***************************************************************************)
(* The requests and the surroundings parserequest is run on.                *)
(***************************************************************************)
Q_Subject == <<"S","u","b","j","e","c","t",":"," ","a",";","b","\n">>
Q_LongSubject == <<"S","u","b","j","e","c","t",":"," ","a",">","b","|","a",">","b","|","a",">","b","|","a",">","b","|","a",">","b","|","a",">","b","|","a",">","b","|","a",">","b","|","a",">","b","|","a",">","b","|","a",">","b","|","a",">","b","|","a",">","b","|","a",">","b","|","a",">","b","|","a",">","b","|","a",">","b","|","\n">>
Q_ShowLine == <<"s","h","o","w"," ","l","i","n","e","\n">>
Q_ExtractAll == <<"e","x","t","r","a","c","t"," ","a","l","l","\n">>
Q_ExtractElement == <<"e","x","t","r","a","c","t"," ","e","l","e","m","e","n","t","\n">>
Q_ExtractStellar == <<"e","x","t","r","a","c","t"," ","s","t","e","l","l","a","r","\n">>
Q_Foo == <<"f","o","o","\n">>
Q_Equal == <<"5","0","0","0",",","5","0","0","0","\n">>
Q_Malformed == <<"5","0","0","0","\n">>
Q_LongFormat == <<"l","o","n","g"," ","f","o","r","m","a","t","\n">>
Q_Personal == <<"p","e","r","s","o","n","a","l"," ","c","o","n","f","i","g","u","r","a","t","i","o","n","\n">>
Q_Species == <<"F","e"," ","1","\n">>
Q_Abund == <<"F","e",":","-","4",".","5",",","X","x",":","1",",","M","/","H",":","0",".","5","\n">>
Q_Abund8 == <<"F","e",":","1",",","F","e",":","1",",","F","e",":","1",",","F","e",":","1",",","F","e",":","1",",","F","e",":","1",",","F","e",":","1",",","F","e",":","1","\n">>
Q_Hfs == <<"h","f","s"," ","s","p","l","i","t","t","i","n","g","\n">>

MaxBody == 3

BodyLines ==
  {L_Body, Q_Equal, Q_Malformed, Q_LongFormat, Q_Personal, Q_Species, L_End}

Bodies == Concats({<<l>> : l \in BodyLines}, MaxBody)

Prefixes ==
  {<<L_Begin, t>> :
     t \in {Q_ShowLine, Q_ExtractAll, Q_ExtractElement, Q_ExtractStellar}}
  \cup {<<L_Begin, Q_Foo, Q_ExtractAll>>}

\* requests without begin request or without a request type, and requests
\* longer than MaxBody lines for the later parts of ExtractStellar and
\* ShowLine
OtherRequests ==
  { <<>>,
    <<Q_Subject, Q_Foo, L_Body>>,
    <<Q_Subject, L_Begin>>,
    <<Q_Subject, L_Begin, Q_Foo, L_Body, L_End>>,
    <<Q_LongSubject, L_Begin, Q_ExtractAll, L_Body, L_End>>,
    <<Q_Subject, Q_Subject, L_Begin, Q_ExtractAll, L_Body, L_End>>,
    <<L_Begin, Q_ExtractStellar, L_Body, L_Body, L_Body, Q_Abund, L_End>>,
    <<L_Begin, Q_ExtractStellar, L_Body, L_Body, L_Body, Q_Abund8, L_End>>,
    <<L_Begin, Q_ShowLine, Q_Hfs, L_Body, Q_Species, L_Body, Q_Species, L_End>> }

Requests == {p \o b : p \in Prefixes, b \in Bodies} \cup OtherRequests

\* the requests run in the surroundings other than the first
ShortRequests ==
  {p \o b : p \in Prefixes, b \in Concats({<<l>> : l \in BodyLines}, 2)}
  \cup OtherRequests

Joe == <<"J","o","e">>

Ann_local == <<"A","n","n","_","l","o","c","a","l">>

\* filename[2], the configuration files, the model directory, the number
\* filename[1] was made from, and the storage read without having been
\* written
Surroundings ==
  { [user |-> Joe, cfg |-> {DefaultConfig}, models |-> << <<5000, 40>> >>,
     number |-> 1,
     stack |-> [abn |-> 0, tail |-> <<>>, subject |-> <<>>]],
    [user |-> Ann_local, cfg |-> {DefaultConfig, PersonalConfigOf(Ann_local)},
     models |-> << <<>>, <<8000, 40>>, <<5000, 50100>> >>,
     number |-> 0 - 1,
     stack |-> [abn |-> 12345, tail |-> <<"?">>, subject |-> <<";", "r", "m">>]],
    [user |-> Joe, cfg |-> {}, models |-> <<>>, number |-> 12,
     stack |-> [abn |-> 0, tail |-> <<>>, subject |-> <<>>]] }

PRInit ==
  /\ MailIdle
  /\ DCIdle
  /\ pc = "main"
  /\ \E e \in Surroundings :
       /\ cfg = e.cfg
       /\ models = e.models
       /\ stack = e.stack
       /\ request_file = RequestName(e.number)
       /\ \/ /\ user = e.user
             /\ request \in IF e.number = 1 THEN Requests ELSE ShortRequests
             /\ writable = TRUE
          \/ /\ user \in {e.user, NULL}
             /\ request \in {NOFILE, <<L_Begin, Q_ExtractAll, L_Body>>}
             /\ writable \in BOOLEAN
  /\ rd = 1
  /\ job = <<>>
  /\ number = 0
  /\ Client_Name = <<>>
  /\ Personal_VALD_CONFIG = <<>>
  /\ kw = KwInit
  /\ request_type = UNKNOWN
  /\ error_state = 0
  /\ status = 0
  /\ run = 1
  /\ job1 = <<>>
  /\ wanted = <<0, 0>>
  /\ bestmod = <<>>
  /\ found = 0
  /\ inputs = <<>>
  /\ nshow = 0

\* what no step of main changes
PRKeeps ==
  UNCHANGED << mail, pos, cl_register, cl_register_local, last_file, disk,
               process, s, n_requests, n_requests_orig, has_begin_request,
               has_end_request, is_mirror, fo, filename, address, ClientName,
               ret, unclosed, start, owner, commits, wanted, bestmod, found,
               request, request_file, user, writable, models, stack,
               nshow >>
  /\ UNCHANGED dcvars

\* the globals and files a request function works on
Globals ==
  [kw |-> kw, cfg |-> cfg, pvc |-> Personal_VALD_CONFIG, client |-> Client_Name,
   number |-> number, models |-> models, out |-> job, inp |-> inputs]

\* lines 1248-1269
PRMain ==
  /\ pc = "main"
  /\ IF user = NULL
       THEN /\ status' = 0
            /\ pc' = "exit"
            /\ UNCHANGED << number, job >>
       ELSE IF request = NOFILE
         THEN /\ status' = 4
              /\ pc' = "exit"
              /\ UNCHANGED << number, job >>
         ELSE /\ number' = atol(SubSeq(request_file, 9, Len(request_file)))
              /\ IF ~writable
                   THEN /\ status' = 8
                        /\ pc' = "exit"
                        /\ UNCHANGED job
                   ELSE /\ job' = <<JLine("#!/bin/csh", <<>>, <<>>)>>
                        /\ pc' = "FindBegin"
                        /\ UNCHANGED status
  /\ UNCHANGED << rd, Client_Name, Personal_VALD_CONFIG, kw, cfg, request_type,
                  error_state, run, job1, inputs >>
  /\ PRKeeps

\* lines 1271-1326 with the result b of the loop
PRFindBeginDone(b) ==
  /\ rd' = b.i
  /\ IF b.request_ON = 1
       THEN /\ job' = job \o Header(number, b.subject, request_file)
            /\ Client_Name' = ClientNameOf(user)
            /\ Personal_VALD_CONFIG' = PersonalConfigOf(user)
            /\ pc' = "ReadType"
            /\ UNCHANGED status
       ELSE /\ job' = job \o NoBegin(number, b.subject)
            /\ status' = EXIT_FAILURE
            /\ pc' = "exit"
            /\ UNCHANGED << Client_Name, Personal_VALD_CONFIG >>

PRFindBegin ==
  /\ pc = "FindBegin"
  /\ PRFindBeginDone(FindBegin(request, rd, <<>>))
  /\ UNCHANGED << number, kw, cfg, request_type, error_state, run, job1, inputs >>
  /\ PRKeeps

\* lines 1328-1364 with the result t of the loop
PRReadTypeDone(t) ==
  /\ rd' = t.i
  /\ request_type' = t.request_type
  /\ IF t.request_type = UNKNOWN
       THEN /\ job' = job \o <<JLine("echo FAILED: Cannot recognise request type",
                                     <<ResultName(number)>>, <<>>)>>
            /\ status' = EXIT_FAILURE
            /\ pc' = "exit"
       ELSE /\ pc' = "Interpret"
            /\ UNCHANGED << job, status >>

PRReadType ==
  /\ pc = "ReadType"
  /\ PRReadTypeDone(ReadType(request, rd))
  /\ UNCHANGED << number, Client_Name, Personal_VALD_CONFIG, kw, cfg,
                  error_state, run, job1, inputs >>
  /\ PRKeeps

(***************************************************************************)
(* ShowLine stepped through: the request is open at line rd, every step is *)
(* one turn of while(1).  The lines of the requests are blank lines,       *)
(* options, unknown words, malformed, negative and well-formed windows,    *)
(* species and the end of the request.                                     *)
(***************************************************************************)
MaxTurnLines == 3

Q_Blank == <<" ", "\n">>

Q_Negative == <<"-","5",",","1","\n">>

TurnLines ==
  {Q_Blank, Q_Hfs, Q_Foo, Q_Malformed, Q_Negative, L_Body, Q_Species, L_End}

SLInit ==
  /\ MailIdle
  /\ DCIdle
  /\ pc = "ShowLine"
  /\ request \in Concats({<<l>> : l \in TurnLines}, MaxTurnLines)
  /\ rd = 1
  /\ nshow = 0
  /\ user = Joe
  /\ writable = TRUE
  /\ request_file = RequestName(1)
  /\ number = 1
  /\ cfg = {DefaultConfig}
  /\ models = <<>>
  /\ stack = [abn |-> 0, tail |-> <<>>, subject |-> <<>>]
  /\ job = <<>>
  /\ Client_Name = ClientNameOf(Joe)
  /\ Personal_VALD_CONFIG = PersonalConfigOf(Joe)
  /\ kw = KwInit
  /\ request_type = SHOW_LINE
  /\ error_state = 0
  /\ status = 0
  /\ run = 1
  /\ job1 = <<>>
  /\ wanted = <<0, 0>>
  /\ bestmod = <<>>
  /\ found = 0
  /\ inputs = <<>>

\* one turn of while(1) with its result t
SLTurnDone(t) ==
  /\ rd' = t.i
  /\ nshow' = t.ishow
  /\ kw' = t.g.kw
  /\ cfg' = t.g.cfg
  /\ inputs' = t.g.inp
  /\ job' = t.g.out
  /\ IF t.done
       THEN /\ error_state' = t.ret
            /\ pc' = "ShowLine.return"
       ELSE UNCHANGED << error_state, pc >>

SLTurn ==
  /\ pc = "ShowLine"
  /\ \E t \in {ShowLineTurn(request, rd, Globals, nshow, stack.tail)} :
       SLTurnDone(t)
  /\ UNCHANGED << mail, pos, cl_register, cl_register_local, last_file, disk,
                  process, s, n_requests, n_requests_orig, has_begin_request,
                  has_end_request, is_mirror, fo, filename, address, ClientName,
                  ret, unclosed, start, owner, commits, wanted, bestmod, found,
                  request, request_file, user, writable, models, stack,
                  number, Client_Name, Personal_VALD_CONFIG, request_type,
                  status, run, job1 >>
  /\ UNCHANGED dcvars

\* what a turn does to the position of the process and the entry number:
\* it returns, or it goes round with the next entry number.  A step of
\* SLTurn is such a step and SLTurn is enabled wherever pc = "ShowLine", so
\* weak fairness of this action is weak fairness of SLTurn: the process is
\* not stopped inside ShowLine.
SLRuns ==
  /\ pc = "ShowLine"
  /\ \/ pc' = "ShowLine.return" /\ nshow' = nshow
     \/ pc' = "ShowLine" /\ nshow' = nshow + 1

SpecSL == SLInit /\ [][SLTurn]_vars /\ WF_<<pc, nshow>>(SLRuns)

\* C40: every turn of the while(1) of ShowLine reads at least one line of
\* the request or returns, and ShowLine returns on every request, with or
\* without an end request line
C40_ShowLineTerminates ==
  /\ [][pc = "ShowLine" => (rd' > rd \/ pc' = "ShowLine.return")]_vars
  /\ <>(pc = "ShowLine.return")

\* ShowLine returned at the end of a request of several entries that has no
\* end request line
C40_Witness ==
  /\ pc = "ShowLine.return"
  /\ nshow >= 2
  /\ rd = Len(request) + 1
  /\ \A i \in 1..Len(request) : request[i] # L_End
  /\ \E i \in 1..Len(request) : request[i] = Q_Species

\* the turns taken one after another do what ShowLine does in one piece
SLTurnsAreShowLine ==
  pc = "ShowLine.return" =>
    /\ rd = ShowLine(request, 1, [Globals EXCEPT !.kw = KwInit, !.out = <<>>,
                                  !.inp = <<>>], stack.tail).i
    /\ job = ShowLine(request, 1, [Globals EXCEPT !.kw = KwInit, !.out = <<>>,
                                   !.inp = <<>>], stack.tail).g.out
    /\ inputs = ShowLine(request, 1, [Globals EXCEPT !.kw = KwInit, !.out = <<>>,
                                      !.inp = <<>>], stack.tail).g.inp
    /\ kw = ShowLine(request, 1, [Globals EXCEPT !.kw = KwInit, !.out = <<>>,
                                  !.inp = <<>>], stack.tail).g.kw

\* lines 1368-1389 with the result r of the request function
PRInterpreted(r, label) ==
  /\ error_state' = r.ret
  /\ rd' = r.i
  /\ kw' = r.g.kw
  /\ cfg' = r.g.cfg
  /\ inputs' = r.g.inp
  /\ job' = r.g.out \o << JLine("echo >> statistics_file", <<>>,
                                Fmtli(number) \o <<" ">> \o label \o <<" ">>
                                \o Client_Name),
                          JLine("cat err.log >>", <<ResultName(number)>>, <<>>),
                          JLine("rm err.log", <<>>, <<>>) >>
  /\ status' = IF r.ret # 0 THEN EXIT_FAILURE ELSE EXIT_SUCCESS
  /\ pc' = "exit"
  /\ UNCHANGED << number, Client_Name, Personal_VALD_CONFIG, request_type, run,
                  job1 >>
  /\ PRKeeps

PRShowLine ==
  /\ pc = "Interpret"
  /\ request_type = SHOW_LINE
  /\ PRInterpreted(ShowLine(request, rd, Globals, stack.tail), <<"S","h","o","w","L","i","n","e">>)

PRExtractAll ==
  /\ pc = "Interpret"
  /\ request_type = EXTRACT_ALL
  /\ PRInterpreted(ExtractAll(request, rd, Globals), <<"E","x","t","r","a","c","t","A","l","l">>)

PRExtractElement ==
  /\ pc = "Interpret"
  /\ request_type = EXTRACT_ELEMENT
  /\ PRInterpreted(ExtractElement(request, rd, Globals), <<"E","x","t","a","c","t","E","l","e","m","e","n","t">>)

PRExtractStellar ==
  /\ pc = "Interpret"
  /\ request_type = EXTRACT_STELLAR
  /\ PRInterpreted(ExtractStellar(request, rd, Globals, stack.abn), <<"E","x","t","r","a","c","t","S","t","e","l","l","a","r">>)

\* the pipeline is run once more on the same request: the files parserequest
\* left stay, the process starts with its initial globals
PRRerun ==
  /\ pc = "exit"
  /\ run = 1
  /\ run' = 2
  /\ job1' = job
  /\ pc' = "main"
  /\ rd' = 1
  /\ job' = <<>>
  /\ number' = 0
  /\ Client_Name' = <<>>
  /\ Personal_VALD_CONFIG' = <<>>
  /\ kw' = KwInit
  /\ request_type' = UNKNOWN
  /\ error_state' = 0
  /\ status' = 0
  /\ inputs' = <<>>
  /\ UNCHANGED cfg
  /\ PRKeeps

PRNext ==
  \/ PRMain
  \/ PRFindBegin
  \/ PRReadType
  \/ PRShowLine
  \/ PRExtractAll
  \/ PRExtractElement
  \/ PRExtractStellar
  \/ PRRerun

SpecPR == PRInit /\ [][PRNext]_vars

(***************************************************************************)
(* Reading the run's inputs and outputs for the properties below.           *)
(***************************************************************************)
\* the mailbox as messages: a message starts at each line that begins 'From '
Boundaries == {p \in 1..Len(mail) : IsFromBoundary(mail[p])}

MsgStop(p) ==
  IF \E q \in Boundaries : q > p
    THEN CHOOSE q \in Boundaries : q > p /\ \A r \in Boundaries : r > p => q <= r
    ELSE Len(mail) + 1

MsgLines(p) == p .. (MsgStop(p) - 1)

MsgHasBegin(p) == \E q \in MsgLines(p) : IsBeginRequest(mail[q])

\* the 'From: ' lines of the message, and whether it has some
MsgHeaders(p) == {q \in MsgLines(p) : q > p /\ IsFromHeader(mail[q])}

\* the first 'From: ' line of the message (it has one)
MsgHeader(p) == CHOOSE q \in MsgHeaders(p) : \A r \in MsgHeaders(p) : q <= r

\* the client of a 'From: ' line that carries its address itself
HeaderClient(q) ==
  Authenticate(cl_register, cl_register_local,
               ExtractAddress(mail[q] \o <<NUL>>))

\* the lines of the script that invoke parserequest, in script order
ParseLines == {i \in DOMAIN process : process[i].cmd = "parserequest"}

JobLines == {i \in DOMAIN process : process[i].cmd = "./job"}

CommittedFiles(script) ==
  {script[i].file : i \in {j \in DOMAIN script : script[j].cmd = "parserequest"}}

\* the request files left on disk that have a stanza in the script
CommittedOnDisk == CommittedFiles(process) \cap DOMAIN disk

\* a run whose behaviour the C standard defines: the global register was
\* opened, and the mailbox starts with a 'From ' line followed by a 'From: '
\* line, so that filename and ClientName are written before they are read
MboxRun ==
  /\ cl_register # NOFILE
  /\ mail # NOFILE
  /\ Len(mail) >= 2
  /\ IsFromBoundary(mail[1])
  /\ IsFromHeader(mail[2])

\* C1: when parsemail has reached the end of the mailbox, the counter that
\* put_last_request_ID wrote is at least the counter the run started from
\* (0 when there was no counter file).
C1_FinalCounterAtLeastInitial ==
  (pc = "done" /\ MboxRun) => atol(last_file) >= n_requests_orig

\* C2: at the end of a run, the number of request files left on disk that
\* have a stanza in the process script is the final counter minus the
\* initial counter.
C2_CommittedCountIsCounterDelta ==
  (pc = "done" /\ MboxRun) =>
    Cardinality(CommittedOnDisk) = atol(last_file) - n_requests_orig

\* C3: within a run the request numbers of the stanzas are strictly
\* increasing in script order, and no 'From ' line opens (truncates) the
\* request file of a request that already has a stanza.
C3_IdsStrictlyIncreasing ==
  /\ [](MboxRun =>
          \A i, j \in ParseLines :
            i < j => atol(process[i].trap) < atol(process[j].trap))
  /\ [][(MboxRun /\ pc = "loop" /\ pos <= Len(mail) /\ IsFromBoundary(mail[pos]))
          => filename' \notin CommittedFiles(process')]_vars

\* the stanzas written for the request file opened at line p
CommitsOf(p) == {i \in DOMAIN commits : commits[i].start = p}

\* the stanzas whose request file received the message that starts at line p
CommitsWith(p) ==
  {i \in DOMAIN commits : commits[i].start <= p /\ p < commits[i].stop}

\* the line with command cmd of the stanza c
StanzaLine(c, cmd) == CHOOSE i \in c.first..c.last : process[i].cmd = cmd

StanzaHas(c, cmd) == \E i \in c.first..c.last : process[i].cmd = cmd

\* the first 'From: ' line of the message carries an address that a register
\* knows
MsgAuthorised(p) ==
  /\ MsgHeaders(p) # {}
  /\ strchr(mail[MsgHeader(p)], "@") # 0
  /\ HeaderClient(MsgHeader(p)) # <<>>

MsgUnauthorised(p) ==
  /\ MsgHeaders(p) # {}
  /\ strchr(mail[MsgHeader(p)], "@") # 0
  /\ HeaderClient(MsgHeader(p)) = <<>>

\* C4: every message whose From: address a register knows and that has a
\* begin-request line gets exactly one stanza, its request and job file are
\* named by exactly one parserequest and one job line of the script, and the
\* stanzas are in mailbox order.
C4_EveryRequestCommittedOnce ==
  (pc = "done" /\ MboxRun) =>
    /\ \A p \in Boundaries :
         (MsgAuthorised(p) /\ MsgHasBegin(p)) =>
           /\ Cardinality(CommitsWith(p)) = 1
           /\ \A i \in CommitsWith(p) :
                LET pr == process[StanzaLine(commits[i], "parserequest")]
                    jb == process[StanzaLine(commits[i], "./job")]
                IN  /\ Cardinality({k \in ParseLines : process[k].file = pr.file}) = 1
                    /\ Cardinality({k \in JobLines : process[k].file = jb.file}) = 1
    /\ \A i, j \in DOMAIN commits :
         i < j => commits[i].start < commits[j].start

\* C5: a message without a begin-request line, or whose From: address no
\* register knows, has no stanza in the script and leaves no request file.
C5_RejectedLeavesNothing ==
  (pc = "done" /\ MboxRun) =>
    \A p \in Boundaries :
      (~MsgHasBegin(p) \/ MsgUnauthorised(p)) =>
        /\ CommitsOf(p) = {}
        /\ ~\E f \in DOMAIN disk : owner[f] = p

\* C6: every stanza belongs to a message in which a 'From: ' line was read
\* after the message's own 'From ' line, so that the client name and the
\* reply address of the stanza come from that message.
C6_ClientFromOwnHeader ==
  MboxRun =>
    \A i \in DOMAIN commits :
      \E q \in (commits[i].start + 1)..(commits[i].stop - 1) : IsFromHeader(mail[q])

\* the step of the main loop that handles a 'From: ' line
AtFromHeader ==
  /\ pc = "loop"
  /\ pos <= Len(mail)
  /\ ~IsFromBoundary(mail[pos])
  /\ IsFromHeader(mail[pos])

EndsWithLocal(name) ==
  /\ Len(name) >= Len(LocalSuffix)
  /\ SubSeq(name, Len(name) - Len(LocalSuffix) + 1, Len(name)) = LocalSuffix

\* what one register yields for an address (no name when it is missing)
RegisterYields(reg, addr) ==
  IF reg = NOFILE THEN <<>> ELSE CheckClient(reg, addr, <<>>).name

\* C7: after a 'From: ' line the client name is the one the global register
\* yields if it yields one, else the one the local register yields with
\* '_local' appended, else empty; it ends with '_local' exactly when it comes
\* from the local register.
C7_GlobalFirstThenLocal ==
  [][AtFromHeader =>
       LET g == RegisterYields(cl_register, address')
           l == RegisterYields(cl_register_local, address')
       IN  /\ g # <<>> => ClientName' = g
           /\ (g = <<>> /\ l # <<>>) => ClientName' = l \o LocalSuffix
           /\ (g = <<>> /\ l = <<>>) => ClientName' = <<>>
           /\ EndsWithLocal(ClientName') <=> (g = <<>> /\ l # <<>>)]_vars

\* a client found in the local register while the global register is there
C7_Witness ==
  /\ cl_register # NOFILE
  /\ cl_register_local # NOFILE
  /\ pc = "loop"
  /\ address = <<"c","@","d">>
  /\ ClientName = <<"A","n","n">> \o LocalSuffix

\* a register line without the newline that ends it: the address entry
EntryOf(line) ==
  IF Len(line) > 0 /\ line[Len(line)] = "\n"
    THEN SubSeq(line, 1, Len(line) - 1)
    ELSE line

\* both strings lower-cased agree on the length of the shorter one
AgreeOnShorter(a, e) ==
  LET n == Min(Len(a), Len(e))
  IN  SubSeq(str2lower(a), 1, n) = SubSeq(str2lower(e), 1, n)

\* the address entries of the register that match the address
MatchingEntries(reg, a) ==
  {i \in DOMAIN reg : reg[i][1] # "#" /\ AgreeOnShorter(a, EntryOf(reg[i]))}

\* the '#$' lines before line i
NameLinesBefore(reg, i) ==
  {j \in 1..(i - 1) : reg[j][1] = "#" /\ Chr(reg[j], 2) = "$"}

AlphaText(line) == SelectSeq(line, isalpha)

\* C8: CheckClient returns 1 exactly when some address entry of the register
\* and the address, both lower-cased, agree on the length of the shorter of
\* the two (so an address that continues a whole entry is accepted), and the
\* name it then returns is the alphabetic text of the nearest '#$' line
\* before the first such entry.
C8_PrefixMatchOnShorter ==
  pc = "CheckClient.return" =>
    LET m == MatchingEntries(cl_register, address)
    IN  /\ (ret = 1) <=> (m # {})
        /\ (ret = 1 /\ m # {}) =>
             LET i == CHOOSE k \in m : \A k2 \in m : k <= k2
                 h == NameLinesBefore(cl_register, i)
             IN  h # {} =>
                   ClientName =
                     AlphaText(cl_register[CHOOSE j \in h : \A j2 \in h : j2 <= j])

\* the lines copied to the request file of the stanza c have a begin request
CommitHasBegin(c) == \E q \in c.start..(c.stop - 1) : IsBeginRequest(mail[q])

\* a 'From: ' line with a quote that is not closed, and one with '<>'
L_FromUnbalanced == <<"F","r","o","m",":"," ","\"","A"," ","<","z","@","z",">","\n">>

L_FromNobody == <<"F","r","o","m",":"," ","@"," ","<",">","\n">>

\* C36: an empty sender address, as main extracts it from a From: line with
\* an unbalanced quote or with '<>', is never authenticated: for every
\* register CheckClient returns 0 and no client name for it.
C36_EmptyAddressRejected ==
  (/\ pc = "CheckClient.return"
   /\ address = <<>>
   /\ address = ExtractAddress(L_FromUnbalanced)
   /\ address = ExtractAddress(L_FromNobody))
    => (ret = 0 /\ ClientName = <<>>)

\* C32: every request file parsemail opens is closed: on every path fclose
\* is called on the request stream before its handle is dropped, so the
\* streams opened and not closed are the one fo holds, or none.
C32_EveryRequestFileClosed ==
  unclosed = (IF fo = NULL THEN 0 ELSE 1)

\* C37: the lines behind the first 'From: ' header of a message do not
\* change whose request it is: the client name and the reply address of its
\* stanza are those of that header, whatever the lines behind it, and with
\* an authorised header the request is aborted only for lack of a begin
\* request line.
C37_BodyKeepsIdentity ==
  pc = "done" =>
    IF HeaderClient(2) # <<>> /\ MsgHasBegin(1)
      THEN /\ Len(commits) = 1
           /\ process[commits[1].first + 2].arg = HeaderClient(2)
           /\ process[commits[1].last - 1].arg =
                ExtractAddress(mail[2] \o <<NUL>>)
      ELSE commits = <<>>

\* C9: a stanza whose client is VALDMirrorSite has a reply line only if the
\* lines of its request have a begin-request line, and it logs the request
\* with head -20, not with cat.
C9_MirrorNoReplyShortLog ==
  MboxRun =>
    \A i \in DOMAIN commits :
      process[StanzaLine(commits[i], "parserequest")].arg = MirrorName =>
        /\ StanzaHas(commits[i], "sendmail") => CommitHasBegin(commits[i])
        /\ StanzaHas(commits[i], "head -20")
        /\ ~StanzaHas(commits[i], "cat")

\* C10: the request file of every stanza holds exactly the lines of its
\* message, from its 'From ' line up to the next 'From ' line or the end of
\* the mailbox, in order.
C10_RequestFileIsMessage ==
  (pc = "done" /\ MboxRun) =>
    \A i \in DOMAIN commits :
      LET f == process[StanzaLine(commits[i], "parserequest")].file
          p == commits[i].start
      IN  /\ f \in DOMAIN disk
          /\ disk[f] = SubSeq(mail, p, MsgStop(p) - 1)

\* C12: in the process script every line that invokes parserequest, a job
\* script or sendmail carries the '||' trap that sets ERROR_STATE=1, in the
\* stanzas written at a 'From ' line and in the one written at end of input.
C12_EveryStageTrapped ==
  MboxRun =>
    \A i \in DOMAIN process :
      process[i].cmd \in {"parserequest", "./job", "sendmail"} =>
        process[i].trap # NoTrap

\* the model entries of the directory
ModelEntries == {models[i] : i \in {j \in DOMAIN models : IsModel(models[j])}}

\* C19: a model that FindNearestModel returns is an entry of the directory
\* whose temperature distance to the request is minimal and whose gravity
\* distance is minimal among the entries at that temperature distance,
\* whatever the order of the entries.
C19_NearestModelIsMinimal ==
  (pc = "FindNearestModel.return" /\ found = 1) =>
    /\ bestmod \in ModelEntries
    /\ \A e \in ModelEntries :
         /\ abs(bestmod[1] - wanted[1]) <= abs(e[1] - wanted[1])
         /\ abs(e[1] - wanted[1]) = abs(bestmod[1] - wanted[1]) =>
              abs(bestmod[2] - wanted[2]) <= abs(e[2] - wanted[2])

\* two models at the same temperature distance, the later one nearer in
\* gravity, and the later one returned
C19_Witness ==
  /\ pc = "FindNearestModel.return"
  /\ found = 1
  /\ wanted = <<2, 1>>
  /\ models = << <<1, 0>>, <<3, 1>> >>
  /\ bestmod = <<3, 1>>

\* C20: FindNearestModel returns 0 exactly when no entry of the directory is
\* a model.
C20_EmptyOnlyWithoutModels ==
  pc = "FindNearestModel.return" => ((found = 0) <=> (ModelEntries = {}))


\* C11: running the pipeline a second time on the same request, with the
\* configuration directory as the first run left it, produces the same job
\* script as the first run.
C11_SecondRunSameJob ==
  (run = 2 /\ pc = "exit") => job = job1


\* the file names the job script written so far refers to
JobNames == UNION {Range(job[i].names) : i \in DOMAIN job}

\* a file name that carries the request number n as %06ld prints it
WithID(before, n, after) == before \o Fmt06ld(n) \o after

RequestJobResult ==
  { WithID(<<"r","e","q","u","e","s","t",".">>, number, <<>>),
    WithID(<<"j","o","b",".">>, number, <<>>),
    WithID(<<"r","e","s","u","l","t",".">>, number, <<>>) }

\* C13 as stated: the job script of request n refers to no file name but
\* request.NNNNNN, job.NNNNNN and result.NNNNNN.
C13_OnlyRequestJobResult ==
  JobNames \subseteq RequestJobResult

\* C13: the file names of the job script of request n are request.NNNNNN,
\* job.NNNNNN, result.NNNNNN, pres_in.NNNNNN, show_in.NNNNNN_III for the
\* entries III of a show line request, and <Client>.NNNNNN with nothing,
\* .gz, .bib or .bib.gz after it, NNNNNN being n as %06ld prints it.
C13_NamesCarryTheNumber ==
  JobNames \subseteq
    RequestJobResult
    \cup { WithID(<<"p","r","e","s","_","i","n",".">>, number, <<>>) }
    \cup { WithID(<<"s","h","o","w","_","i","n",".">>, number, <<"_">> \o Fmt03d(e)) :
             e \in 0..Len(request) }
    \cup { WithID(Client_Name \o <<".">>, number, ext) :
             ext \in {<<>>, <<".","g","z">>, <<".","b","i","b">>, <<".","b","i","b",".","g","z">>} }

\* an accepted extract request whose job script reads pres_in.NNNNNN and
\* attaches <Client>.NNNNNN.bib.gz
C13_Witness ==
  /\ pc = "exit"
  /\ status = 0
  /\ WithID(<<"p","r","e","s","_","i","n",".">>, number, <<>>) \in JobNames
  /\ WithID(Client_Name \o <<".">>, number, <<".","b","i","b",".","g","z">>) \in JobNames


\* C14: a job script that creates err.log ends by appending err.log to
\* result.NNNNNN and removing it, however parserequest finished.
C14_ErrLogCollected ==
  (pc = "exit" /\ \E i \in DOMAIN job : job[i].cmd = "touch err.log") =>
    /\ Len(job) >= 2
    /\ job[Len(job) - 1].cmd = "cat err.log >>"
    /\ job[Len(job) - 1].names = <<ResultName(number)>>
    /\ job[Len(job)].cmd = "rm err.log"


\* the first line of req from i on that starts like a number, or 0
RECURSIVE FirstNumeric(_, _)
FirstNumeric(req, i) ==
  IF i > Len(req) THEN 0
  ELSE IF NumericStart(compressN(req[i], 80)) THEN i
  ELSE FirstNumeric(req, i + 1)

\* the line after the request type line
BodyStart == ReadType(request, FindBegin(request, 1, <<>>).i).i

\* the first numeric block of the body does not hold two numbers
MalformedBlock ==
  /\ FirstNumeric(request, BodyStart) # 0
  /\ sscanf2(compressN(request[FirstNumeric(request, BodyStart)], 80)).n # 2

\* C15: parserequest returns 4 when the request file cannot be opened, 8
\* when the job file cannot be created, and a non-zero status when no begin
\* request is found, when the request type is not recognised, or when the
\* body of a request of any of the four types has a malformed numeric block.
C15_ExitStatus ==
  (pc = "exit" /\ user # NULL) =>
    /\ request = NOFILE => status = 4
    /\ (request # NOFILE /\ ~writable) => status = 8
    /\ (request # NOFILE /\ writable /\ request_type = UNKNOWN) => status # 0
    /\ (request # NOFILE /\ writable /\ request_type # UNKNOWN /\ MalformedBlock)
         => status # 0


\* the first line of req from i on that compress does not leave empty, or 0
RECURSIVE FirstNonEmpty(_, _)
FirstNonEmpty(req, i) ==
  IF i > Len(req) THEN 0
  ELSE IF compressN(req[i], 80) # <<>> THEN i
  ELSE FirstNonEmpty(req, i + 1)

\* begin request is there and the first non-empty line after it starts with
\* none of the four request types
TypeLineIsNoType ==
  /\ FindBegin(request, 1, <<>>).request_ON = 1
  /\ FirstNonEmpty(request, FindBegin(request, 1, <<>>).i) # 0
  /\ TypeOf(str2lower(compressN(
       request[FirstNonEmpty(request, FindBegin(request, 1, <<>>).i)], 80)))
     = UNKNOWN

\* C16: a request whose first non-empty line after begin request does not
\* start with a request type is rejected as an unrecognised request type,
\* whatever lines come later.
C16_TypeOnNextLine ==
  (/\ pc = "exit"
   /\ user # NULL
   /\ request # NOFILE
   /\ writable
   /\ TypeLineIsNoType) =>
    /\ request_type = UNKNOWN
    /\ status # 0


\* the line matches a keyword prefix
IsKeywordLine(line) == KeywordHits(compressN(line, 80)) # {}

\* C17: a line that matches a keyword prefix is consumed as a keyword: it
\* is never written to an input file as the species name.
C17_KeywordNeverSpecies ==
  pc = "exit" =>
    \A k \in DOMAIN inputs :
      inputs[k].what = "species" =>
        ~ \E i \in DOMAIN request :
            /\ IsKeywordLine(request[i])
            /\ inputs[k].val = compress_species(<<>>, request[i])


\* the numbers of the first numeric block of the body
FirstBlock == sscanf2(compressN(request[FirstNumeric(request, BodyStart)], 80))

\* the job line is a preselect pipeline
IsPreselect(line) ==
  line.cmd \in { "preselect | format >", "preselect | format >>",
                 "preselect | format | hfs_split | post_hfs_format >",
                 "preselect | format | hfs_split | post_hfs_format >>",
                 "preselect | select >>",
                 "preselect | select | hfs_split | post_hfs_format >>" }

\* C18: ExtractAll, ExtractElement and ExtractStellar accept a wavelength
\* range only when 0 < wl_left < wl_right; for any other pair they emit no
\* preselect pipeline and return failure.
C18_RangeStrict ==
  (/\ pc = "exit"
   /\ request_type \in {EXTRACT_ALL, EXTRACT_ELEMENT, EXTRACT_STELLAR}
   /\ FirstNumeric(request, BodyStart) # 0
   /\ FirstBlock.n = 2
   /\ ~(0 < FirstBlock.a /\ FirstBlock.a < FirstBlock.b)) =>
    /\ status # 0
    /\ \A i \in DOMAIN job : ~IsPreselect(job[i])


\* the entries of select.input among the writes inp
RECURSIVE SelectWrites(_)
SelectWrites(inp) ==
  IF inp = <<>> THEN <<>>
  ELSE (IF Head(inp).file = SelectInput
             /\ Head(inp).what \in {"abundance", "newline", "end"}
          THEN <<Head(inp)>> ELSE <<>>)
       \o SelectWrites(Tail(inp))

\* the greatest number of characters the abundance tokens put on one line
\* of select.input; len is the length of the line being written
RECURSIVE LongestAbundLine(_, _, _)
LongestAbundLine(w, len, most) ==
  IF w = <<>> THEN most
  ELSE IF Head(w).what = "abundance"
    THEN LongestAbundLine(Tail(w), len + Len(Head(w).val),
                          IF len + Len(Head(w).val) > most
                            THEN len + Len(Head(w).val) ELSE most)
    ELSE IF Head(w).what = "newline"
      THEN LongestAbundLine(Tail(w), 0, most)
      ELSE LongestAbundLine(Tail(w), len, most)

SelectLineMax == 66

\* C21: in the select.input ExtractStellar writes, the abundance tokens of
\* one line take at most 66 characters, and 'END' follows the abundances.
C21_AbundLinesWrapped ==
  (pc = "exit" /\ request_type = EXTRACT_STELLAR /\ status = 0) =>
    /\ LongestAbundLine(SelectWrites(inputs), 0, 0) <= SelectLineMax
    /\ \E k \in DOMAIN SelectWrites(inputs) :
         /\ SelectWrites(inputs)[k].what = "end"
         /\ \A j \in DOMAIN SelectWrites(inputs) :
              SelectWrites(inputs)[j].what = "abundance" => j < k


MetaCharacters == {";", "&", "|", "<", ">", "\"", "\n", "\r"}

\* the first echo line of the job script
SubjectLines == {i \in DOMAIN job : job[i].cmd = "echo Subject: Re: >"}

\* C22: the subject text between the double quotes of the first echo line
\* of the job script holds none of ; & | < > " line feed, carriage return.
C22_SubjectHasNoMeta ==
  \A i \in SubjectLines : Range(job[i].arg) \cap MetaCharacters = {}


(***************************************************************************)
(* Part 6: the line list decoder, vald/lib/vald3/src/unkompress3.c and      *)
(* vald3_decompress.cpp.                                                    *)
(*                                                                          *)
(* Wavelengths are integers.  A stored transition is its wavelength and     *)
(* its species code; the 210 bytes that ADDLINE copies to str all hold the  *)
(* species code, so that the bytes of one line can be told from those of    *)
(* another.  A data file is the sequence of its records, each the lines     *)
(* uncompress delivers from its payload; uncompress itself is stepped       *)
(* through in part 7.                                                       *)
(***************************************************************************)
MAX_OPEN_FILES == 400

\* vald3_decompress.cpp line 41, unkompress3.c lines 124 and 149
STR_BYTES_PER_LINE == 210

\* unkompress3.c lines 411-412: the bytes of str moved for a kept line
STR_BYTES_MOVED == 76

Transition(w, id) == [wl |-> w, element |-> id]

\* three records: the first two share the boundary 20, a gap lies between
\* 30 and 40
LinesA ==
  << << Transition(10, 1), Transition(15, 2), Transition(20, 3) >>,
     << Transition(20, 4), Transition(25, 5), Transition(30, 6) >>,
     << Transition(40, 7), Transition(50, 8) >> >>

LinesB == << << Transition(12, 9), Transition(18, 10) >> >>

\* the length of the payload of a record in the data file
PayloadLength(lines) == 20 * Len(lines)

RECURSIVE PayloadOffset(_, _)
PayloadOffset(data, k) ==
  IF k = 1 THEN 0
  ELSE PayloadOffset(data, k - 1) + PayloadLength(data[k - 1])

\* struct RECORD, lines 55-59, for each record of a data file
Directory(data) ==
  [k \in 1..Len(data) |->
     [wl1 |-> data[k][1].wl,
      wl2 |-> data[k][Len(data[k])].wl,
      offset |-> PayloadOffset(data, k),
      length |-> PayloadLength(data[k])]]

\* the descriptor files and the data files that exist
Descriptors ==
  "A.dsc" :> Directory(LinesA) @@ "B.dsc" :> Directory(LinesB) @@
  "E.dsc" :> <<>> @@ "D.dsc" :> Directory(LinesB)

DataFiles == "A.dat" :> LinesA @@ "B.dat" :> LinesB @@ "E.dat" :> <<>>

\* file_data and file_descr of ukopen_: the path, and whether a blank
\* follows it
Named(path) == [path |-> path, blank |-> TRUE]

FilePairs ==
  { [file_data |-> Named("A.dat"), file_descr |-> Named("A.dsc")],
    [file_data |-> Named("B.dat"), file_descr |-> Named("B.dsc")],
    [file_data |-> Named("E.dat"), file_descr |-> Named("E.dsc")],
    [file_data |-> Named("D.dat"), file_descr |-> Named("D.dsc")],
    [file_data |-> Named("X.dat"), file_descr |-> Named("X.dsc")],
    [file_data |-> [path |-> "A.dat", blank |-> FALSE],
     file_descr |-> Named("A.dsc")],
    [file_data |-> Named("A.dat"),
     file_descr |-> [path |-> "A.dsc", blank |-> FALSE]] }

\* the handles the calls of the model pass, and those with a slot in fi;
\* VALD3Reader passes 1
Handles == {-1, 0, 1, 399, 400}

Slots == {f \in Handles : 0 <= f /\ f < MAX_OPEN_FILES}

\* the arrays of lines 48-59, zero as static storage is
NoReaders ==
  [fi |-> [f \in Slots |-> NULL],
   number_of_records |-> [f \in Slots |-> 0],
   records |-> [f \in Slots |-> <<>>],
   current_record |-> [f \in Slots |-> 0]]

\* the arrays of the state as one record
Arrays ==
  [fi |-> fi, number_of_records |-> number_of_records, records |-> records,
   current_record |-> current_record]

\* lines 283-335
ukopenData(u, f, file_data) ==
  IF ~file_data.blank THEN [ret |-> -4, u |-> u]
  ELSE IF file_data.path \notin DOMAIN DataFiles THEN [ret |-> -3, u |-> u]
  ELSE [ret |-> u.number_of_records[f],
        u |-> [u EXCEPT !.fi[f] = <<file_data.path, 0>>,
                        !.current_record[f] = 0]]

\* ukopen_ without the test of line 294 for a handle that is open
ukopenAgain(u, f, file_data, file_descr) ==
  IF f >= MAX_OPEN_FILES \/ f < 0
    THEN [ret |-> -1, u |-> u]
  ELSE IF ~file_descr.blank THEN [ret |-> -4, u |-> u]
  ELSE IF file_descr.path \notin DOMAIN Descriptors THEN [ret |-> -2, u |-> u]
  ELSE ukopenData([u EXCEPT
                     !.number_of_records[f] = Len(Descriptors[file_descr.path]),
                     !.records[f] = Descriptors[file_descr.path]],
                  f, file_data)

ukopen_(u, f, file_data, file_descr) ==
  IF f >= MAX_OPEN_FILES \/ f < 0 \/ u.fi[f] # NULL
    THEN [ret |-> -1, u |-> u]
  ELSE IF ~file_descr.blank THEN [ret |-> -4, u |-> u]
  ELSE IF file_descr.path \notin DOMAIN Descriptors THEN [ret |-> -2, u |-> u]
  ELSE ukopenData([u EXCEPT
                     !.number_of_records[f] = Len(Descriptors[file_descr.path]),
                     !.records[f] = Descriptors[file_descr.path]],
                  f, file_data)

\* lines 337-346; records[f] is freed
ukclose_(u, f) ==
  IF f >= MAX_OPEN_FILES \/ f < 0 \/ u.fi[f] = NULL
    THEN [ret |-> -1, u |-> u]
    ELSE [ret |-> 0, u |-> [u EXCEPT !.fi[f] = NULL, !.records[f] = <<>>]]

\* the caller's arrays wl, element and str
Buffers(w, e, st) == [wl |-> w, element |-> e, str |-> st]

NoBuffers == Buffers(<<>>, <<>>, <<>>)

\* what uncompress leaves in the caller's arrays for the lines of a
\* record, lines 137-149
Uncompressed(lines) ==
  Buffers([i \in 1..Len(lines) |-> lines[i].wl],
          [i \in 1..Len(lines) |-> lines[i].element],
          [p \in 1..(Len(lines) * STR_BYTES_PER_LINE) |->
             lines[((p - 1) \div STR_BYTES_PER_LINE) + 1].element])

\* the size of a data file
RECURSIVE FileSize(_, _)
FileSize(data, k) ==
  IF k = 0 THEN 0 ELSE FileSize(data, k - 1) + PayloadLength(data[k])

\* fread(record, length, 1, fi[f]) at the position of the stream: whether
\* it delivers one item, and the lines uncompress makes of it (none of a
\* payload that is no record of the file)
fread(stream, len) ==
  LET data == DataFiles[stream[1]]
      at == {k \in 1..Len(data) :
               PayloadOffset(data, k) = stream[2] /\ PayloadLength(data[k]) = len}
  IN  [items |-> IF len > 0 /\ stream[2] + len <= FileSize(data, Len(data))
                   THEN 1 ELSE 0,
       lines |-> IF at = {} THEN <<>> ELSE data[CHOOSE k \in at : TRUE]]

\* records[f][k] with k counted from 0
Rec(u, f, k) == u.records[f][k + 1]

\* lines 375-379
RECURSIVE Bisect(_, _, _, _, _)
Bisect(u, f, wave1, i, j) ==
  IF j - i > 1
    THEN IF wave1 < Rec(u, f, (i + j) \div 2).wl1
           THEN Bisect(u, f, wave1, i, (i + j) \div 2)
           ELSE Bisect(u, f, wave1, (i + j) \div 2, j)
    ELSE <<i, j>>

\* lines 367-381: -2, or the starting record k
StartingRecord(u, f, wave1, wave2) ==
  IF \/ wave1 > Rec(u, f, u.number_of_records[f] - 1).wl2
     \/ wave2 < Rec(u, f, 0).wl1
    THEN -2
  ELSE IF wave1 < Rec(u, f, 0).wl1 THEN 0
  ELSE IF wave1 > Rec(u, f, Bisect(u, f, wave1, 0, u.number_of_records[f] - 1)[1]).wl2
    THEN Bisect(u, f, wave1, 0, u.number_of_records[f] - 1)[2]
    ELSE Bisect(u, f, wave1, 0, u.number_of_records[f] - 1)[1]

\* the test of line 395 with the upper end of the range left out
KeptBelow(b, wave1, wave2) ==
  SelectSeq([i \in 1..Len(b.wl) |-> i],
            LAMBDA i : b.wl[i] >= wave1 /\ b.wl[i] < wave2)

\* lines 394-395: the lines of the decoded record in the range
Kept(b, wave1, wave2) ==
  SelectSeq([i \in 1..Len(b.wl) |-> i],
            LAMBDA i : b.wl[i] >= wave1 /\ b.wl[i] <= wave2)

\* lines 393-417: the kept lines are moved to the front, 76 bytes of each
\* line's str at a stride of 76
Filtered(b, kept) ==
  Buffers([p \in 1..Len(b.wl) |->
             IF p <= Len(kept) THEN b.wl[kept[p]] ELSE b.wl[p]],
          [p \in 1..Len(b.element) |->
             IF p <= Len(kept) THEN b.element[kept[p]] ELSE b.element[p]],
          [p \in 1..Len(b.str) |->
             IF p <= Len(kept) * STR_BYTES_MOVED
               THEN b.str[(kept[((p - 1) \div STR_BYTES_MOVED) + 1] - 1)
                            * STR_BYTES_MOVED
                          + ((p - 1) % STR_BYTES_MOVED) + 1]
               ELSE b.str[p]])

\* lines 392-437: the decoded lines are filtered and counted
ukreadFilter(u, f, k, dec, kept) ==
  [ret |-> Len(kept),
   u |-> [u EXCEPT !.current_record[f] = k + 1,
                   !.fi[f] = <<u.fi[f][1],
                               Rec(u, f, k).offset + Rec(u, f, k).length>>],
   b |-> Filtered(dec, kept)]

ukreadDecoded(u, f, wave1, wave2, k, dec) ==
  ukreadFilter(u, f, k, dec, Kept(dec, wave1, wave2))

\* lines 382-437, from the starting record k on
ukreadRecord(u, f, wave1, wave2, b, k, rd1) ==
  IF rd1.items # 1
    THEN [ret |-> -4, u |-> [u EXCEPT !.current_record[f] = k], b |-> b]
    ELSE ukreadDecoded(u, f, wave1, wave2, k, Uncompressed(rd1.lines))

ukreadFrom(u, f, wave1, wave2, b, k) ==
  IF k = -2 THEN [ret |-> -2, u |-> u, b |-> b]
  ELSE ukreadRecord(u, f, wave1, wave2, b, k,
                    fread(<<u.fi[f][1], Rec(u, f, k).offset>>,
                          Rec(u, f, k).length))

\* What ukread_ does on a directory without records: line 370 reads
\* records[f][-1] and records[f][0] outside the allocation, so either test
\* may hold; if neither, k is 0 or -1, and the read of the empty data file
\* fails, or the seek before it.
EmptyOutcomes ==
  {[ret |-> -2, k |-> 0]} \cup
  {[ret |-> r, k |-> k] : r \in {-3, -4}, k \in {-1, 0}}

\* lines 349-438; ub is what the reads outside records[f] lead to
ukread_(u, f, wave1, wave2, b, ub) ==
  IF f >= MAX_OPEN_FILES \/ f < 0 \/ u.fi[f] = NULL
    THEN [ret |-> -1, u |-> u, b |-> b]
  ELSE IF u.number_of_records[f] = 0
    THEN [ret |-> ub.ret,
          u |-> IF ub.ret = -2 THEN u
                ELSE [u EXCEPT !.current_record[f] = ub.k],
          b |-> b]
  ELSE ukreadFrom(u, f, wave1, wave2, b, StartingRecord(u, f, wave1, wave2))

\* line 457 compares current_record[f] with the unsigned
\* number_of_records[f] as unsigned: a negative value is above every count
NoRecordLeft(cur, n) == cur < 0 \/ cur >= n

\* uknext_ without the increment of line 468
uknextSame(u, f, b, rd1) ==
  IF rd1.items # 1 THEN [ret |-> -3, u |-> u, b |-> b]
  ELSE [ret |-> Len(rd1.lines),
        u |-> [u EXCEPT !.fi[f] = <<u.fi[f][1],
                                    u.fi[f][2] + Rec(u, f, u.current_record[f]).length>>],
        b |-> Uncompressed(rd1.lines)]

\* lines 440-471
uknextRecord(u, f, b, rd1) ==
  IF rd1.items # 1 THEN [ret |-> -3, u |-> u, b |-> b]
  ELSE [ret |-> Len(rd1.lines),
        u |-> [u EXCEPT !.current_record[f] = @ + 1,
                        !.fi[f] = <<u.fi[f][1],
                                    u.fi[f][2] + Rec(u, f, u.current_record[f]).length>>],
        b |-> Uncompressed(rd1.lines)]

uknext_(u, f, b) ==
  IF f >= MAX_OPEN_FILES \/ f < 0 \/ u.fi[f] = NULL
    THEN [ret |-> -1, u |-> u, b |-> b]
  ELSE IF NoRecordLeft(u.current_record[f], u.number_of_records[f])
    THEN [ret |-> -2, u |-> u, b |-> b]
  ELSE uknextRecord(u, f, b,
                    fread(u.fi[f], Rec(u, f, u.current_record[f]).length))


\* the wavelengths of the queries: before the first record, inside one, on
\* the shared boundary, in the gap, inside the last record, behind it
Wavelengths == {5, 15, 20, 35, 45, 55}

NoCall == [op |-> "none", f |-> 0, wave1 |-> 0, wave2 |-> 0]

Called(op, f, wave1, wave2) ==
  [op |-> op, f |-> f, wave1 |-> wave1, wave2 |-> wave2]

\* a program that calls the four functions on handles of its choice
UKInit ==
  /\ MailIdle
  /\ PRIdle
  /\ LZIdle
  /\ pc = "decoder"
  /\ fi = NoReaders.fi
  /\ number_of_records = NoReaders.number_of_records
  /\ records = NoReaders.records
  /\ current_record = NoReaders.current_record
  /\ wl = <<>>
  /\ element = <<>>
  /\ strbuf = <<>>
  /\ returned = 0
  /\ call = NoCall
  /\ readers = <<>>
  /\ result = <<>>

UKKeeps ==
  /\ UNCHANGED << mail, pos, cl_register, cl_register_local, last_file, disk,
                  process, pc, s, n_requests, n_requests_orig,
                  has_begin_request, has_end_request, is_mirror, fo, filename,
                  address, ClientName, ret, unclosed, start, owner, commits >>
  /\ UNCHANGED prvars
  /\ UNCHANGED lzvars

\* the handles that are open
Open == {f \in Slots : fi[f] # NULL}

readerState == << fi, number_of_records, records, current_record >>

\* the arrays after a call
Store(u) ==
  /\ fi' = u.fi
  /\ number_of_records' = u.number_of_records
  /\ records' = u.records
  /\ current_record' = u.current_record

Load(b) ==
  /\ wl' = b.wl
  /\ element' = b.element
  /\ strbuf' = b.str

\* ukopen_ called with handle f on the pair of files; the arrays the caller
\* passes to a call are new ones
UKOpenCall(f, pair) ==
  LET r == ukopen_(Arrays, f, pair.file_data, pair.file_descr)
  IN  /\ returned' = r.ret
      /\ Store(r.u)
      /\ Load(NoBuffers)
      /\ call' = Called("ukopen_", f, 0, 0)

UKOpen(hs, pairs) ==
  /\ pc = "decoder"
  /\ \E f \in hs, pair \in pairs : UKOpenCall(f, pair)
  /\ UNCHANGED << readers, result >>
  /\ UKKeeps

UKClose(hs) ==
  /\ pc = "decoder"
  /\ \E f \in hs :
       LET r == ukclose_(Arrays, f)
       IN  /\ returned' = r.ret
           /\ Store(r.u)
           /\ Load(NoBuffers)
           /\ call' = Called("ukclose_", f, 0, 0)
  /\ UNCHANGED << readers, result >>
  /\ UKKeeps

UKReadCall(f, wave1, wave2, ub) ==
  LET r == ukread_(Arrays, f, wave1, wave2, NoBuffers, ub)
  IN  /\ returned' = r.ret
      /\ Store(r.u)
      /\ Load(r.b)
      /\ call' = Called("ukread_", f, wave1, wave2)

\* the outcomes of ukread_ on handle f that the build can produce
Outcomes(f) ==
  IF f \in Slots /\ fi[f] # NULL /\ number_of_records[f] = 0
    THEN EmptyOutcomes ELSE {[ret |-> 0, k |-> 0]}

UKRead(hs, ws) ==
  /\ pc = "decoder"
  /\ \E f \in hs, wave1 \in ws, wave2 \in ws :
       /\ wave1 <= wave2
       /\ \E ub \in Outcomes(f) : UKReadCall(f, wave1, wave2, ub)
  /\ UNCHANGED << readers, result >>
  /\ UKKeeps

UKNext(hs) ==
  /\ pc = "decoder"
  /\ \E f \in hs :
       LET r == uknext_(Arrays, f, NoBuffers)
       IN  /\ returned' = r.ret
           /\ Store(r.u)
           /\ Load(r.b)
           /\ call' = Called("uknext_", f, 0, 0)
  /\ UNCHANGED << readers, result >>
  /\ UKKeeps

\* one handle, every pair of files, every query
OneHandle == {-1, 0, 400}

UKStep ==
  \/ UKOpen(OneHandle, FilePairs)
  \/ UKClose(OneHandle)
  \/ UKRead(OneHandle, Wavelengths)
  \/ UKNext(OneHandle)

\* several handles, two pairs of files, one query
SeveralHandles == {-1, 0, 399, 400}

TwoPairs ==
  {pair \in FilePairs :
     /\ pair.file_data \in {Named("A.dat"), Named("B.dat")}
     /\ pair.file_descr \in {Named("A.dsc"), Named("B.dsc")}}

UKHStep ==
  \/ UKOpen(SeveralHandles, TwoPairs)
  \/ UKClose(SeveralHandles)
  \/ UKRead(SeveralHandles, {15, 20})
  \/ UKNext(SeveralHandles)

SpecUKH == UKInit /\ [][UKHStep]_vars

SpecUK == UKInit /\ [][UKStep]_vars


(***************************************************************************)
(* class VALD3Reader, vald3_decompress.cpp lines 32-224.  A throw of       *)
(* std::runtime_error is the record Thrown; a constructor that throws       *)
(* leaves no object.                                                        *)
(***************************************************************************)
\* line 45
file_handle == 1

Thrown(what) == [threw |-> what, nlines |-> 0, lines |-> <<>>]

\* lines 181-218: the dictionary, one entry of lines per transition with
\* its wavelength, species code and STR_BYTES_PER_LINE bytes of string_data
Dict(out) == [threw |-> "", nlines |-> Len(out), lines |-> out]

NoReader == [is_open |-> FALSE, data_file |-> "", desc_file |-> ""]

\* lines 142-163: the lines of the arrays in the range are appended to the
\* output while it holds fewer than max_lines
RECURSIVE Copied(_, _, _, _, _, _, _)
Copied(b, nlines, i, wl_min, wl_max, max_lines, out) ==
  IF i < nlines /\ Len(out) < max_lines
    THEN Copied(b, nlines, i + 1, wl_min, wl_max, max_lines,
                IF b.wl[i + 1] >= wl_min /\ b.wl[i + 1] <= wl_max
                  THEN Append(out,
                              [wl |-> b.wl[i + 1],
                               element |-> b.element[i + 1],
                               str |-> SubSeq(b.str, i * STR_BYTES_PER_LINE + 1,
                                              (i + 1) * STR_BYTES_PER_LINE)])
                  ELSE out)
    ELSE out

\* lines 140-178: the loop, from the result r of the last ukread_ or
\* uknext_ on
RECURSIVE QueryLoop(_, _, _, _, _)
QueryNext(nx, wl_min, wl_max, max_lines, out) ==
  IF nx.ret > 0 /\ nx.b.wl[1] > wl_max
    THEN [u |-> nx.u, out |-> out]
    ELSE QueryLoop(nx, wl_min, wl_max, max_lines, out)

QueryCopied(r, wl_min, wl_max, max_lines, out) ==
  QueryNext(uknext_(r.u, file_handle, r.b), wl_min, wl_max, max_lines, out)

QueryLoop(r, wl_min, wl_max, max_lines, out) ==
  IF r.ret > 0 /\ Len(out) < max_lines
    THEN QueryCopied(r, wl_min, wl_max, max_lines,
                     Copied(r.b, r.ret, 0, wl_min, wl_max, max_lines, out))
    ELSE [u |-> r.u, out |-> out]

\* lines 85-219
query_range(u, this, wl_min, wl_max, max_lines, ub) ==
  IF ~this.is_open THEN [u |-> u, result |-> Thrown("VALD3 file not open")]
  ELSE IF wl_min >= wl_max
    THEN [u |-> u, result |-> Thrown("Invalid wavelength range")]
  ELSE LET q == QueryLoop(ukread_(u, file_handle, wl_min, wl_max, NoBuffers, ub),
                          wl_min, wl_max, max_lines, <<>>)
       IN  [u |-> q.u, result |-> Dict(q.out)]

\* the Python objects that hold a reader
Objects == {"r1", "r2"}

\* the files a reader is made for
ReaderFiles == {"A", "B", "X"}

DataName(file) ==
  CASE file = "A" -> "A.dat" [] file = "B" -> "B.dat" [] OTHER -> "X.dat"

DescName(file) ==
  CASE file = "A" -> "A.dsc" [] file = "B" -> "B.dsc" [] OTHER -> "X.dsc"

\* the ends of the ranges asked for: inside the first record, on the shared
\* boundary, in the gap, behind the last record
QueryEnds == {15, 20, 35, 55}

\* max_lines: its default, and a limit the queries reach
MaxLinesDefault == 100000

MaxLinesSmall == 2

VRInit ==
  /\ MailIdle
  /\ PRIdle
  /\ LZIdle
  /\ pc = "python"
  /\ fi = NoReaders.fi
  /\ number_of_records = NoReaders.number_of_records
  /\ records = NoReaders.records
  /\ current_record = NoReaders.current_record
  /\ wl = <<>>
  /\ element = <<>>
  /\ strbuf = <<>>
  /\ returned = 0
  /\ call = [op |-> "none", this |-> "", wl_min |-> 0, wl_max |-> 0,
             max_lines |-> 0]
  /\ readers = [o \in Objects |-> NoReader]
  /\ result = Dict(<<>>)

VRKeeps ==
  /\ UNCHANGED << wl, element, strbuf, returned >>
  /\ UKKeeps

\* a call on object this; for the constructor, this is followed by the file
VRCalled(op, this, wl_min, wl_max, max_lines) ==
  [op |-> op, this |-> this, wl_min |-> wl_min, wl_max |-> wl_max,
   max_lines |-> max_lines]

\* lines 44-47 and 53-72: the constructor and the open() it calls, for an
\* object name that holds no reader
VRNew ==
  /\ pc = "python"
  /\ \E o \in Objects, file \in ReaderFiles :
       /\ readers[o] = NoReader
       /\ LET r == ukopen_(Arrays, file_handle, Named(DataName(file)),
                           Named(DescName(file)))
          IN  /\ Store(r.u)
              /\ IF r.ret < 0
                   THEN /\ result' = Thrown("Failed to open VALD3 files")
                        /\ UNCHANGED readers
                   ELSE /\ result' = Dict(<<>>)
                        /\ readers' = [readers EXCEPT ![o] =
                                         [is_open |-> TRUE,
                                          data_file |-> DataName(file),
                                          desc_file |-> DescName(file)]]
       /\ call' = VRCalled("VALD3Reader", <<o, file>>, 0, 0, 0)
  /\ VRKeeps

\* lines 74-79
VRClose ==
  /\ pc = "python"
  /\ \E o \in Objects :
       /\ readers[o] # NoReader
       /\ IF readers[o].is_open
            THEN /\ Store(ukclose_(Arrays, file_handle).u)
                 /\ readers' = [readers EXCEPT ![o].is_open = FALSE]
            ELSE UNCHANGED << readerState, readers >>
       /\ call' = VRCalled("close", o, 0, 0, 0)
  /\ result' = Dict(<<>>)
  /\ VRKeeps

\* lines 49-51: the object is collected
VRDelete ==
  /\ pc = "python"
  /\ \E o \in Objects :
       /\ readers[o] # NoReader
       /\ IF readers[o].is_open
            THEN Store(ukclose_(Arrays, file_handle).u)
            ELSE UNCHANGED readerState
       /\ readers' = [readers EXCEPT ![o] = NoReader]
       /\ call' = VRCalled("~VALD3Reader", o, 0, 0, 0)
  /\ result' = Dict(<<>>)
  /\ VRKeeps

VRQueryCall(o, wl_min, wl_max, max_lines, ub) ==
  LET q == query_range(Arrays, readers[o], wl_min, wl_max, max_lines, ub)
  IN  /\ Store(q.u)
      /\ result' = q.result
      /\ call' = VRCalled("query_range", o, wl_min, wl_max, max_lines)

VRQuery ==
  /\ pc = "python"
  /\ \E o \in Objects, wl_min \in QueryEnds, wl_max \in QueryEnds,
        max_lines \in {MaxLinesSmall, MaxLinesDefault} :
       /\ readers[o] # NoReader
       /\ wl_min <= wl_max
       /\ \E ub \in Outcomes(file_handle) :
            VRQueryCall(o, wl_min, wl_max, max_lines, ub)
  /\ UNCHANGED readers
  /\ VRKeeps

VRStep == VRNew \/ VRClose \/ VRDelete \/ VRQuery

SpecVR == VRInit /\ [][VRStep]_vars

\* the lines of the record the last ukread_ on handle f selected
SelectedLines(f) == DataFiles[fi[f][1]][current_record[f]]

\* C23: every transition ukread_ returns for (wave1, wave2) has
\* wave1 <= wavelength <= wave2, and the count returned is the number of
\* decoded lines of the selected record in that closed range.
C23_ReadReturnsTheRange ==
  (call.op = "ukread_" /\ returned >= 0) =>
    /\ \A i \in 1..returned : call.wave1 <= wl[i] /\ wl[i] <= call.wave2
    /\ returned =
         Cardinality({i \in DOMAIN SelectedLines(call.f) :
                        /\ call.wave1 <= SelectedLines(call.f)[i].wl
                        /\ SelectedLines(call.f)[i].wl <= call.wave2})

\* a read that drops the first line of its record and keeps the other two,
\* the last of them on the upper end of the range
C23_Witness ==
  /\ call.op = "ukread_"
  /\ call.wave1 = 15
  /\ call.wave2 = 20
  /\ returned = 2
  /\ SubSeq(wl, 1, 2) = <<15, 20>>


\* the last call was ukread_ on an open handle with a directory of one
\* record or more
ReadOnDirectory ==
  /\ call.op = "ukread_"
  /\ call.f \in Slots
  /\ fi[call.f] # NULL
  /\ number_of_records[call.f] >= 1

\* the records, counted from 0, whose closed range overlaps the range of
\* the last call
Overlapping ==
  {k \in 0..(number_of_records[call.f] - 1) :
     /\ records[call.f][k + 1].wl1 <= call.wave2
     /\ call.wave1 <= records[call.f][k + 1].wl2}

\* C25: for a query that intersects the directory, ukread_ positions on the
\* lowest-index record whose closed range overlaps [wave1, wave2].
C25_LowestOverlappingRecord ==
  (ReadOnDirectory /\ Overlapping # {}) =>
    /\ returned >= 0
    /\ \A k \in Overlapping : current_record[call.f] - 1 <= k
    /\ current_record[call.f] - 1 \in Overlapping

\* C26: ukread_ returns -2 exactly when no record of the directory
\* intersects [wave1, wave2].
C26_MinusTwoIffNoRecord ==
  ReadOnDirectory => (returned = -2 <=> Overlapping = {})


\* C27: at most 400 handles are open; ukopen_ on a handle outside 0..399 or
\* on an open handle returns -1, ukread_, uknext_ and ukclose_ on a handle
\* that is not open return -1, and such a call leaves the open set, the
\* directories and the current records as they were.
C27_Handles ==
  [][/\ Cardinality(Open') <= MAX_OPEN_FILES
     /\ Open' \subseteq 0..(MAX_OPEN_FILES - 1)
     /\ (call'.op = "ukopen_" /\ call'.f \notin (0..(MAX_OPEN_FILES - 1)) \ Open)
          => (returned' = -1 /\ UNCHANGED readerState)
     /\ (call'.op \in {"ukread_", "uknext_", "ukclose_"} /\ call'.f \notin Open)
          => (returned' = -1 /\ UNCHANGED readerState)]_vars

\* ukopen_ was refused on handle 399, which is open, while handle 0 is open
\* as well
C27_Witness ==
  /\ call.op = "ukopen_"
  /\ call.f = 399
  /\ returned = -1
  /\ Open = {0, 399}


\* record k, counted from 0, of the data file open on handle f
StoredRecord(f, k) == DataFiles[fi[f][1]][k + 1]

\* C29: uknext_ decodes the record behind the one decoded last, so after
\* ukread_ selected record k the i-th uknext_ decodes record k+i; behind the
\* last record it returns -2 and goes on returning -2; the current record
\* never exceeds the number of records.
C29_NextInDirectoryOrder ==
  [][/\ \A f \in Open' : current_record'[f] <= number_of_records'[f]
     /\ (call'.op = "uknext_" /\ call'.f \in Open
           /\ number_of_records[call'.f] >= 1) =>
          IF current_record[call'.f] >= number_of_records[call'.f]
            THEN returned' = -2 /\ UNCHANGED current_record
            ELSE /\ returned' = Len(StoredRecord(call'.f, current_record[call'.f]))
                 /\ Buffers(wl', element', strbuf') =
                      Uncompressed(StoredRecord(call'.f, current_record[call'.f]))
                 /\ current_record'[call'.f] = current_record[call'.f] + 1]_vars

\* uknext_ has decoded the last record of the three, behind the record a
\* ukread_ selected
C29_Witness ==
  /\ call.op = "uknext_"
  /\ returned = 2
  /\ wl = <<40, 50>>
  /\ current_record[0] = 3

\* uknext_ has returned -2 behind the last record
C29_WitnessEnd ==
  /\ call.op = "uknext_"
  /\ returned = -2
  /\ 0 \in Open
  /\ current_record[0] = 3


\* the transitions stored in the file of reader o with a wavelength in the
\* range of the last call, in the order of the file
RECURSIVE Flat(_)
Flat(data) == IF data = <<>> THEN <<>> ELSE Head(data) \o Flat(Tail(data))

StoredInRange(o) ==
  SelectSeq(Flat(DataFiles[readers[o].data_file]),
            LAMBDA t : call.wl_min <= t.wl /\ t.wl <= call.wl_max)

\* a transition as query_range returns it
Returned(t) ==
  [wl |-> t.wl, element |-> t.element,
   str |-> [p \in 1..STR_BYTES_PER_LINE |-> t.element]]

\* C24: query_range(wl_min, wl_max) returns exactly the stored transitions
\* with a wavelength in [wl_min, wl_max], each once and in ascending
\* order of wavelength, up to max_lines of them.
C24_QueryReturnsTheRange ==
  (call.op = "query_range" /\ readers[call.this].is_open
     /\ call.wl_min < call.wl_max) =>
    /\ result.threw = ""
    /\ result.nlines = Min(Len(StoredInRange(call.this)), call.max_lines)
    /\ result.lines =
         [i \in 1..result.nlines |-> Returned(StoredInRange(call.this)[i])]

\* C28: a second VALD3Reader can be made while a first one is open, and
\* each reader then answers from its own directory.
C28_SecondReaderOpens ==
  (/\ call.op = "VALD3Reader"
   /\ DescName(call.this[2]) \in DOMAIN Descriptors
   /\ \E o \in Objects \ {call.this[1]} : readers[o].is_open)
    => (result.threw = "" /\ readers[call.this[1]].is_open)



\* the bytes of str that belong to the line at index m, counted from 1
TextBlock(m) ==
  SubSeq(strbuf, STR_BYTES_PER_LINE * (m - 1) + 1, STR_BYTES_PER_LINE * m)

\* C39: for every index m that ukread_ returns, the 210 bytes of str at
\* 210*m are the text block decoded for the line whose wavelength and
\* species code are at index m, whichever lines were filtered out.
C39_FilterKeepsTransitions ==
  (call.op = "ukread_" /\ returned > 0) =>
    \A m \in 1..returned :
      TextBlock(m) = [p \in 1..STR_BYTES_PER_LINE |-> element[m]]


\* lines 375-380: the entries of records[f] the bisection reads
RECURSIVE BisectIndexes(_, _, _, _, _)
BisectIndexes(u, f, wave1, i, j) ==
  IF j - i > 1
    THEN {(i + j) \div 2} \cup
         (IF wave1 < Rec(u, f, (i + j) \div 2).wl1
            THEN BisectIndexes(u, f, wave1, i, (i + j) \div 2)
            ELSE BisectIndexes(u, f, wave1, (i + j) \div 2, j))
    ELSE {i}

\* lines 367-385: the indexes k at which ukread_ reads records[f][k] on an
\* open handle; line 370 reads the entry at number_of_records[f]-1 first
ukreadIndexes(u, f, wave1, wave2) ==
  {u.number_of_records[f] - 1} \cup
  (IF u.number_of_records[f] = 0 THEN {}
   ELSE {0} \cup
        (IF StartingRecord(u, f, wave1, wave2) = -2 THEN {}
         ELSE {StartingRecord(u, f, wave1, wave2)} \cup
              (IF wave1 < Rec(u, f, 0).wl1 THEN {}
               ELSE BisectIndexes(u, f, wave1, 0, u.number_of_records[f] - 1))))

\* lines 457-458: the index at which uknext_ reads records[f] on an open
\* handle
uknextIndexes(u, f) ==
  IF NoRecordLeft(u.current_record[f], u.number_of_records[f])
    THEN {} ELSE {u.current_record[f]}

\* C38: ukread_ and uknext_ index the directory of an open handle only at
\* 0..n-1, n the number of records loaded from the descriptor, for every
\* n >= 0, every query and every sequence of calls before.
C38_DirectoryIndexInBounds ==
  [][/\ (call'.op = "ukread_" /\ call'.f \in Open) =>
          ukreadIndexes(Arrays, call'.f, call'.wave1, call'.wave2)
            \subseteq 0..(number_of_records[call'.f] - 1)
     /\ (call'.op = "uknext_" /\ call'.f \in Open) =>
          uknextIndexes(Arrays, call'.f)
            \subseteq 0..(number_of_records[call'.f] - 1)]_vars

\* C33: after any sequence of ukopen_ and ukclose_ calls, those that fail
\* behind the load of the descriptor included, no directory is allocated
\* for a handle that is not open.
C33_DirectoriesFreed ==
  \A f \in Slots : fi[f] = NULL => records[f] = <<>>

(***************************************************************************)
(* Part 7: ReadCode and uncompress, unkompress3.c lines 61-94 and 160-281,  *)
(* one step per pass of the loop of line 188.  The record that uncompress   *)
(* decodes is made, one byte of the corpus per step, by an encoder of the   *)
(* format: codes of 9 to 16 bits packed from the low bit on, CLEAR = 256,   *)
(* EOP = 257, first code assigned 258.  The encoder is no part of the       *)
(* sources; it widens its codes where uncompress does, writes no CLEAR      *)
(* before its first code, and a CLEAR when its table holds EncoderClearAt   *)
(* entries.                                                                 *)
(***************************************************************************)
LINE_LENGTH == 270

MAX_CODE_SIZE == 16

HSIZE == 65536

\* lines 176-185
ClearCode == 256

EOPCode == 257

FirstFree == 258

InitCodeSize == 9

BitMask == 255

\* the number of entries at which the encoder clears its table
EncoderClearAt == 260

\* x & mask for a mask of the form 2^n - 1
BitAnd(x, mask) == x % (mask + 1)

\* record[p]; rec holds the bytes read from the file, or those of them that
\* are not in a run of zeros at its start, and behind the payload the
\* static array holds zeros
ByteAt(rec, p) == IF p + 1 \in DOMAIN rec THEN rec[p + 1] ELSE 0

\* lines 71-93, with byte1 read; n is the number of bytes lines 72-89 read.
\* RawCode is an unsigned long: byte4 is added behind the shift, which gives
\* the same number within 31 bits
ReadCodeBytes(rec, cur, bo, b1, size, mask, n) ==
  [code |-> BitAnd((BitAnd(b1, 255)
                    + (IF n >= 1 THEN ByteAt(rec, cur) * 256 ELSE 0)
                    + (IF n >= 2 THEN ByteAt(rec, cur + 1) * 65536 ELSE 0))
                   \div (2^bo)
                   + (IF n >= 3 THEN ByteAt(rec, cur + 2) * (2^(24 - bo)) ELSE 0),
                   mask),
   cur |-> cur + n,
   BitOffset |-> (bo + size) % 8,
   byte1 |-> IF n = 0 THEN b1 ELSE ByteAt(rec, cur + n - 1)]

ReadCodeFrom(rec, cur, bo, b1, size, mask) ==
  ReadCodeBytes(rec, cur, bo, b1, size, mask,
                IF size + bo >= 24 THEN 3
                ELSE IF size + bo >= 16 THEN 2
                ELSE IF size + bo >= 8 THEN 1 ELSE 0)

\* lines 61-94
ReadCode(rec, cur, bo, b1, size, mask) ==
  IF bo < 0
    THEN ReadCodeFrom(rec, cur + 1, 0, ByteAt(rec, cur), size, mask)
    ELSE ReadCodeFrom(rec, cur, bo, b1, size, mask)

\* ADDLINE, lines 107-152: the bytes go to line, and each full line to the
\* caller's arrays
AddLineFull(all, lines) ==
  [delivered |->
     lines \o [j \in 1..(Len(all) \div LINE_LENGTH) |->
                 SubSeq(all, (j - 1) * LINE_LENGTH + 1, j * LINE_LENGTH)],
   linebuf |->
     SubSeq(all, (Len(all) \div LINE_LENGTH) * LINE_LENGTH + 1, Len(all))]

ADDLINE(buf, lines, bytes) == AddLineFull(buf \o bytes, lines)

\* an entry of Prefix or Suffix; the arrays are static
At(table, c) == IF c \in DOMAIN table THEN table[c] ELSE 0

\* lines 232-243: the chain from CurCode, stacked in OutCode
RECURSIVE Chain(_, _)
Chain(CurCode, OutCode) ==
  IF CurCode > BitMask
    THEN Chain(At(Prefix, CurCode), Append(OutCode, At(Suffix, CurCode)))
    ELSE [FinChar |-> BitAnd(CurCode, BitMask),
          OutCode |-> Append(OutCode, BitAnd(CurCode, BitMask))]

\* lines 232-238: the chain from CurCode comes back to a code it went
\* through.  Then the loop of line 232 goes on until OutCount is above HSIZE
\* and ends in exit(16) of line 234.  A chain that does not come back goes
\* through each code above BitMask once at most, so that OutCount stays
\* below HSIZE and the tests of lines 234 and 238 fail.
RECURSIVE ChainLoops(_, _)
ChainLoops(CurCode, seen) ==
  IF CurCode <= BitMask
    THEN FALSE
    ELSE IF CurCode \in seen
      THEN TRUE
      ELSE ChainLoops(At(Prefix, CurCode), seen \cup {CurCode})

\* the indexes at which lines 235 and 236 read Suffix and Prefix
RECURSIVE ChainIndexes(_, _)
ChainIndexes(CurCode, seen) ==
  IF CurCode <= BitMask \/ CurCode \in seen
    THEN seen
    ELSE ChainIndexes(At(Prefix, CurCode), seen \cup {CurCode})

\* the stack put out first in, first out
AsStacked(sq) == sq

\* lines 249-252: the stack is put out last in, first out
Reversed(sq) == [i \in 1..Len(sq) |-> sq[Len(sq) + 1 - i]]

EmptyTable == [c \in {} |-> 0]

\* a corpus of n bytes
Squares(n) == [i \in 1..n |-> (i * i) % 256]

Sevens(n) == [i \in 1..n |-> 7]

\* two lines of many different pairs of bytes, one line of one byte over
\* and over, a line and five bytes more, three bytes, no byte
Corpora == {Squares(540), Sevens(270), Sevens(275), <<1, 2, 3>>, <<>>}

NoEncoder ==
  [table |-> EmptyTable, w |-> -1, pos |-> 1, acc |-> 0, nbits |-> 0,
   size |-> InitCodeSize, free |-> FirstFree, ncodes |-> 0, out |-> <<>>]

LZInit ==
  /\ MailIdle
  /\ PRIdle
  /\ UKIdle
  /\ pc = "compress"
  /\ corpus \in Corpora
  /\ encoder = NoEncoder
  /\ record = <<>>
  /\ length = 0
  /\ Code = 0
  /\ MaxCode = 0
  /\ ReadMask = 0
  /\ OldCode = 0
  /\ FinChar = 0
  /\ CodeSize = 0
  /\ FreeCode = 0
  /\ Prefix = EmptyTable
  /\ Suffix = EmptyTable
  /\ BitOffset = 0
  /\ current_byte_in_record = 0
  /\ byte1 = 0
  /\ linebuf = <<>>
  /\ delivered = <<>>
  /\ lcount = 0
  /\ BOIdle

LZKeeps ==
  /\ UNCHANGED << mail, pos, cl_register, cl_register_local, last_file, disk,
                  process, s, n_requests, n_requests_orig,
                  has_begin_request, has_end_request, is_mirror, fo, filename,
                  address, ClientName, ret, unclosed, start, owner, commits >>
  /\ UNCHANGED prvars
  /\ UNCHANGED ukvars
  /\ UNCHANGED << host, change_byte_order, wire, got >>

decoder == << Code, MaxCode, ReadMask, OldCode, FinChar, CodeSize, FreeCode,
              Prefix, Suffix, BitOffset, current_byte_in_record, byte1,
              linebuf, delivered, lcount >>

\* the encoder writes a code of its present size
Put(e, code) ==
  [e EXCEPT
     !.out = @ \o [j \in 1..((e.nbits + e.size) \div 8) |->
                     ((e.acc + code * (2^e.nbits)) \div (256^(j - 1))) % 256],
     !.acc = (e.acc + code * (2^e.nbits)) \div (256^((e.nbits + e.size) \div 8)),
     !.nbits = (e.nbits + e.size) % 8]

\* after a code that is not the first since the start or a CLEAR, the
\* decoder has one entry more, and the codes widen as in lines 266-275
Counted(e) ==
  IF e.ncodes = 0 THEN [e EXCEPT !.ncodes = 1]
  ELSE [e EXCEPT !.ncodes = @ + 1,
                 !.free = @ + 1,
                 !.size = IF e.free + 1 >= 2^e.size /\ e.size < MAX_CODE_SIZE
                            THEN @ + 1 ELSE @]

Emit(e, code) == Counted(Put(e, code))

\* the table is cleared
Cleared(e) ==
  [Put(e, ClearCode) EXCEPT !.table = EmptyTable, !.size = InitCodeSize,
                            !.free = FirstFree, !.ncodes = 0]

\* the phrase e.w followed by b is new: e.w is written, the phrase gets the
\* next code
Entered(e, b, table) ==
  IF Cardinality(DOMAIN table) >= EncoderClearAt
    THEN [Cleared(e) EXCEPT !.w = b]
    ELSE [e EXCEPT !.table = table, !.w = b]

NewPhrase(e, b) ==
  Entered(Emit(e, e.w), b,
          (<<e.w, b>> :> FirstFree + Cardinality(DOMAIN e.table)) @@ e.table)

\* one byte of the corpus
Encoded(e, b) ==
  IF e.w = -1 THEN [e EXCEPT !.w = b, !.pos = @ + 1]
  ELSE IF <<e.w, b>> \in DOMAIN e.table
    THEN [e EXCEPT !.w = e.table[<<e.w, b>>], !.pos = @ + 1]
    ELSE [NewPhrase(e, b) EXCEPT !.pos = @ + 1]

\* the last phrase, EOP, and the bits left over
Flushed(e) == IF e.nbits > 0 THEN Append(e.out, e.acc % 256) ELSE e.out

Finished(e) ==
  Flushed(Put(IF e.w = -1 THEN e ELSE Emit(e, e.w), EOPCode))

LZEncode ==
  /\ pc = "compress"
  /\ encoder.pos <= Len(corpus)
  /\ encoder' = Encoded(encoder, corpus[encoder.pos])
  /\ UNCHANGED << pc, corpus, record, length, decoder >>
  /\ LZKeeps

\* the record is written, and read as in lines 385-387
LZRecord ==
  /\ pc = "compress"
  /\ encoder.pos > Len(corpus)
  /\ record' = Finished(encoder)
  /\ length' = Len(Finished(encoder))
  /\ current_byte_in_record' = 0
  /\ pc' = "uncompress"
  /\ UNCHANGED << corpus, encoder, Code, MaxCode, ReadMask, OldCode, FinChar,
                  CodeSize, FreeCode, Prefix, Suffix, BitOffset, byte1, linebuf,
                  delivered, lcount >>
  /\ LZKeeps

\* lines 170-188
LZStart ==
  /\ pc = "uncompress"
  /\ linebuf' = <<>>
  /\ delivered' = <<>>
  /\ BitOffset' = -1
  /\ CodeSize' = InitCodeSize
  /\ FreeCode' = FirstFree
  /\ MaxCode' = 2^InitCodeSize
  /\ ReadMask' = 2^InitCodeSize - 1
  /\ Code' = ClearCode
  /\ lcount' = 0
  /\ pc' = IF 0 < length THEN "loop" ELSE "return"
  /\ UNCHANGED << corpus, encoder, record, length, OldCode, FinChar, Prefix,
                  Suffix, current_byte_in_record, byte1 >>
  /\ LZKeeps

\* lines 277-279 and 188: the next code is read with the size and mask
\* given, from the place rc left; the loop ends on EOP or after length
\* passes
NextCode(rc, size, mask) ==
  LET nx == ReadCode(record, rc.cur, rc.BitOffset, rc.byte1, size, mask)
  IN  /\ Code' = nx.code
      /\ current_byte_in_record' = nx.cur
      /\ BitOffset' = nx.BitOffset
      /\ byte1' = nx.byte1
      /\ lcount' = IF nx.code = EOPCode THEN lcount ELSE lcount + 1
      /\ pc' = IF nx.code = EOPCode \/ lcount + 1 >= length
                 THEN "return" ELSE "loop"

Stored(added) ==
  /\ linebuf' = added.linebuf
  /\ delivered' = added.delivered

\* lines 194-204 and 277-278
LZClear ==
  /\ pc = "loop"
  /\ Code = ClearCode
  /\ CodeSize' = InitCodeSize
  /\ MaxCode' = 2^InitCodeSize
  /\ ReadMask' = 2^InitCodeSize - 1
  /\ FreeCode' = FirstFree
  /\ LET rc == ReadCode(record, current_byte_in_record, BitOffset, byte1,
                        InitCodeSize, 2^InitCodeSize - 1)
     IN  /\ OldCode' = rc.code
         /\ FinChar' = BitAnd(rc.code, BitMask)
         /\ Stored(ADDLINE(linebuf, delivered, <<BitAnd(rc.code, BitMask)>>))
         /\ NextCode(rc, InitCodeSize, 2^InitCodeSize - 1)
  /\ UNCHANGED << corpus, encoder, record, length, Prefix, Suffix >>
  /\ LZKeeps

\* the place ReadCode reads from
Here ==
  [cur |-> current_byte_in_record, BitOffset |-> BitOffset, byte1 |-> byte1]

\* a mutation of lines 266-275: the width grows beyond MAX_CODE_SIZE
WidenedUncapped == FreeCode + 1 >= MaxCode

\* lines 266-275
Widened == FreeCode + 1 >= MaxCode /\ CodeSize < MAX_CODE_SIZE

\* lines 212-278, with the chain ch of the code
LZDataChain(ch) ==
  /\ FinChar' = ch.FinChar
  /\ Stored(ADDLINE(linebuf, delivered, Reversed(ch.OutCode)))
  /\ Prefix' = (FreeCode :> OldCode) @@ Prefix
  /\ Suffix' = (FreeCode :> ch.FinChar) @@ Suffix
  /\ OldCode' = Code
  /\ FreeCode' = FreeCode + 1
  /\ CodeSize' = IF Widened THEN CodeSize + 1 ELSE CodeSize
  /\ MaxCode' = IF Widened THEN MaxCode * 2 ELSE MaxCode
  /\ ReadMask' = IF Widened THEN 2^(CodeSize + 1) - 1 ELSE ReadMask
  /\ NextCode(Here, IF Widened THEN CodeSize + 1 ELSE CodeSize,
              IF Widened THEN 2^(CodeSize + 1) - 1 ELSE ReadMask)

\* lines 213-223: the code the chain starts from
ChainStart == IF Code >= FreeCode THEN OldCode ELSE Code

\* lines 205-278; exit(16) of lines 211 and 234 ends the program
LZData ==
  /\ pc = "loop"
  /\ Code # ClearCode
  /\ IF FreeCode >= HSIZE \/ ChainLoops(ChainStart, {})
       THEN /\ pc' = "exit"
            /\ UNCHANGED decoder
       ELSE LZDataChain(IF Code >= FreeCode
                          THEN Chain(OldCode, <<FinChar>>)
                          ELSE Chain(Code, <<>>))
  /\ UNCHANGED << corpus, encoder, record, length >>
  /\ LZKeeps

LZStep == LZEncode \/ LZRecord \/ LZStart \/ LZClear \/ LZData

SpecLZW == LZInit /\ [][LZStep]_vars

\* the whole lines of a sequence of bytes
WholeLines(bytes) ==
  [j \in 1..(Len(bytes) \div LINE_LENGTH) |->
     SubSeq(bytes, (j - 1) * LINE_LENGTH + 1, j * LINE_LENGTH)]

RECURSIVE Joined(_)
Joined(lines) == IF lines = <<>> THEN <<>> ELSE Head(lines) \o Joined(Tail(lines))

\* C30 as stated: for every byte string, uncompress delivers exactly its
\* bytes, as consecutive lines of 270 bytes.
C30_RoundTripEveryString ==
  pc = "return" => Joined(delivered) = corpus

\* C30: for a byte string of whole lines, uncompress of its encoding
\* delivers exactly its bytes as consecutive lines of 270 bytes; of any
\* byte string it delivers the whole lines, and not the bytes behind them.
C30_RoundTripWholeLines ==
  pc = "return" => delivered = WholeLines(corpus)

\* two lines were delivered from a record with codes of ten bits (code 512
\* was assigned) and a CLEAR behind them (the free code is below 512 again)
C30_Witness ==
  /\ pc = "return"
  /\ Len(delivered) = 2
  /\ Len(corpus) = 2 * LINE_LENGTH
  /\ 2^InitCodeSize \in DOMAIN Prefix
  /\ FreeCode < 2^InitCodeSize


(***************************************************************************)
(* uncompress on the bytes of any record.  The records are packed from     *)
(* sequences of codes, well-formed or not, with the widths uncompress      *)
(* reads them with.  The program is at the start of uncompress, or at a    *)
(* pass of the loop of line 188 far into a record that begins with zero    *)
(* bytes: each code read from them is 0, each pass puts out one byte 0 and *)
(* enters Prefix = 0 and Suffix = 0 at FreeCode.                           *)
(***************************************************************************)
MaxRaw == 3

RawCodes == {0, 65, ClearCode, EOPCode, FirstFree, FirstFree + 1}

\* the first stream makes Prefix[259] = 259 and then reads the code 259
RawStreams ==
  Concats({<<c>> : c \in RawCodes}, MaxRaw)
  \cup { <<65, 259, 66, 259, EOPCode>>,
         <<65, 300, 66, 258, EOPCode>>,
         <<65, 66, 258, 260, 261, ClearCode, 66, 258, EOPCode>> }

\* the codes after the zero bytes in the records the program is far into;
\* top is the greatest code of the width they begin with
FarStreams(top) ==
  { <<0, 0, 0, 0, EOPCode>>,
    <<0, 0, ClearCode, 65, 66, EOPCode>>,
    <<0, ClearCode, 0, EOPCode>>,
    <<EOPCode>>,
    <<top, 0, top, EOPCode>>,
    <<0, 0, top, 0, EOPCode>> }

\* FreeCode where the program is far into the record
FarFree == {2^InitCodeSize - 2, 2^(MAX_CODE_SIZE - 1) - 2, HSIZE - 3}

Zeros(n) == [i \in 1..n |-> 0]

\* the width of the code read with FreeCode = f (lines 266-275)
WidthAt(f) ==
  IF f >= HSIZE THEN MAX_CODE_SIZE
  ELSE CHOOSE w \in InitCodeSize..MAX_CODE_SIZE :
         f < 2^w /\ (w = InitCodeSize \/ f >= 2^(w - 1))

Least(a, b) == IF a < b THEN a ELSE b

\* the number of f in FirstFree+1..free with WidthAt(f) = w
ReadAtWidth(free, w) ==
  IF Least(free, 2^w - 1) < (IF w = InitCodeSize THEN FirstFree + 1 ELSE 2^(w - 1))
    THEN 0
    ELSE Least(free, 2^w - 1)
         - (IF w = InitCodeSize THEN FirstFree + 1 ELSE 2^(w - 1)) + 1

RECURSIVE BitsFrom(_, _)
BitsFrom(free, w) ==
  IF w > MAX_CODE_SIZE THEN 0
  ELSE w * ReadAtWidth(free, w) + BitsFrom(free, w + 1)

\* the bits read when FreeCode = free for the first time: two codes of
\* InitCodeSize bits in the first pass, and one code at the end of each
\* later pass
BitsRead(free) == 2 * InitCodeSize + BitsFrom(free, InitCodeSize)

\* the bytes packed from codes by a writer in state e
RECURSIVE Packed(_, _)
Packed(codes, e) ==
  IF codes = <<>> THEN Flushed(e)
  ELSE Packed(Tail(codes),
              IF Head(codes) = ClearCode THEN Cleared(e) ELSE Emit(e, Head(codes)))

\* the record with the codes after BitsRead(free) zero bits; the first of
\* them is read at the end of the pass that makes FreeCode = free + 1
FarBytes(free, codes) ==
  Packed(codes, [NoEncoder EXCEPT !.size = WidthAt(free + 1),
                                  !.free = free + 1,
                                  !.nbits = BitsRead(free) % 8,
                                  !.ncodes = 1])

FarRecord(free, codes) ==
  [p \in (BitsRead(free) \div 8 + 1)
          ..(BitsRead(free) \div 8 + Len(FarBytes(free, codes))) |->
     FarBytes(free, codes)[p - BitsRead(free) \div 8]]

\* uncompress is called (line 387)
LZRFresh ==
  /\ pc = "uncompress"
  /\ record \in {Packed(c, NoEncoder) : c \in RawStreams}
  /\ length = Len(record)
  /\ Code = 0
  /\ MaxCode = 0
  /\ ReadMask = 0
  /\ OldCode = 0
  /\ FinChar = 0
  /\ CodeSize = 0
  /\ FreeCode = 0
  /\ BitOffset = 0
  /\ current_byte_in_record = 0
  /\ byte1 = 0
  /\ linebuf = <<>>
  /\ delivered = <<>>
  /\ lcount = 0

\* the pass of the loop in which FreeCode = free for the first time
LZRFar(free) ==
  /\ pc = "loop"
  /\ record \in {FarRecord(free, c) :
                    c \in FarStreams(2^WidthAt(free + 1) - 1)}
  /\ length = BitsRead(free) \div 8 + Cardinality(DOMAIN record)
  /\ Code = 0
  /\ OldCode = 0
  /\ FinChar = 0
  /\ CodeSize = WidthAt(free)
  /\ MaxCode = 2^WidthAt(free)
  /\ ReadMask = 2^WidthAt(free) - 1
  /\ FreeCode = free
  /\ BitOffset = BitsRead(free) % 8
  /\ current_byte_in_record = BitsRead(free) \div 8 + 1
  /\ byte1 = ByteAt(record, BitsRead(free) \div 8)
  /\ lcount = free - FirstFree + 1
  /\ linebuf = Zeros((free - FirstFree + 1) % LINE_LENGTH)
  /\ delivered = [j \in 1..((free - FirstFree + 1) \div LINE_LENGTH) |->
                    Zeros(LINE_LENGTH)]

LZRInit ==
  /\ MailIdle
  /\ PRIdle
  /\ UKIdle
  /\ BOIdle
  /\ corpus = <<>>
  /\ encoder = NoEncoder
  /\ Prefix = EmptyTable
  /\ Suffix = EmptyTable
  /\ \/ LZRFresh
     \/ \E free \in FarFree : LZRFar(free)

LZRStep == LZStart \/ LZClear \/ LZData

SpecLZR == LZRInit /\ [][LZRStep]_vars

\* C35: on a corrupt record (the table is full without a CLEAR, or a chain
\* is longer than the table) the decoder gives a negative code back to its
\* caller and the program goes on: uncompress never ends the program
C35_CorruptionIsLocal == pc # "exit"


\* the indexes at which the pass that begins reads and writes Prefix and
\* Suffix (lines 235, 236, 257, 258)
TableIndexes == ChainIndexes(ChainStart, {}) \cup {FreeCode}

\* the greatest index at which the pass that begins writes OutCode (lines
\* 223, 235, 243): line 234 lets OutCount come to HSIZE before a store
OutCodeTop ==
  IF ChainLoops(ChainStart, {})
    THEN HSIZE
    ELSE Len(Chain(ChainStart,
                   IF Code >= FreeCode THEN <<FinChar>> ELSE <<>>).OutCode) - 1

\* C34: where uncompress calls ReadCode, 9 <= CodeSize <= 16, MaxCode =
\* 2^CodeSize, ReadMask = MaxCode - 1 and 258 <= FreeCode <= MaxCode, and a
\* pass indexes Prefix and Suffix below HSIZE and OutCode up to HSIZE; a
\* CLEAR sets CodeSize to 9 and FreeCode to 258, and a pass for another code
\* adds 1 to FreeCode, and 1 to CodeSize exactly when FreeCode comes to
\* MaxCode with CodeSize below 16
C34_DecoderBounds ==
  /\ [](pc \in {"loop", "return"} =>
          /\ InitCodeSize <= CodeSize
          /\ CodeSize <= MAX_CODE_SIZE
          /\ MaxCode = 2^CodeSize
          /\ ReadMask = MaxCode - 1
          /\ FirstFree <= FreeCode
          /\ FreeCode <= MaxCode
          /\ (pc = "loop" /\ Code # ClearCode /\ FreeCode < HSIZE) =>
               /\ TableIndexes \subseteq 0..(HSIZE - 1)
               /\ OutCodeTop <= HSIZE)
  /\ [][(pc = "loop" /\ pc' # "exit") =>
          IF Code = ClearCode
            THEN CodeSize' = InitCodeSize /\ FreeCode' = FirstFree
            ELSE /\ FreeCode' = FreeCode + 1
                 /\ CodeSize' = IF FreeCode' = MaxCode /\ CodeSize < MAX_CODE_SIZE
                                  THEN CodeSize + 1 ELSE CodeSize]_vars

\* uncompress returned from a record in which the table came to be full
\* with codes of 16 bits (its last entry HSIZE - 1 was written) and a CLEAR
\* came then, after which one entry was made with codes of 9 bits
C34_Witness ==
  /\ pc = "return"
  /\ HSIZE - 1 \in DOMAIN Prefix
  /\ CodeSize = InitCodeSize
  /\ FreeCode = FirstFree + 1
  /\ Code = EOPCode


(***************************************************************************)
(* Part 8: the byte order.  ukopen_ (lines 296-316) and ADDLINE (lines     *)
(* 107-152) read numbers from the bytes of the files with loads of the     *)
(* machine, after ByteSwap where change_byte_order is set.  A number is    *)
(* written as its bytes from the most to the least significant one.  The   *)
(* array line is a char array, and whether a char is signed is a matter of *)
(* the build.  The loads of lines 112-123 are those of a machine that      *)
(* loads a double from any address.                                        *)
(***************************************************************************)
Hosts == {[big |-> b, char_signed |-> c] : b \in BOOLEAN, c \in BOOLEAN}

\* ByteSwap, lines 96-105
RECURSIVE ByteSwapLoop(_, _, _, _)
ByteSwapLoop(sq, i, j, n) ==
  IF i < n \div 2
    THEN ByteSwapLoop([sq EXCEPT ![i + 1] = sq[j + 1], ![j + 1] = sq[i + 1]],
                      i + 1, j - 1, n)
    ELSE sq

ByteSwap(sq, n) == ByteSwapLoop(sq, 0, n - 1, n)

\* the n bytes at arr + off
BytesAt(arr, off, n) == SubSeq(arr, off + 1, off + n)

\* arr with the bytes at arr + off replaced
WithBytes(arr, off, bytes) ==
  [p \in 1..Len(arr) |->
     IF p > off /\ p <= off + Len(bytes) THEN bytes[p - off] ELSE arr[p]]

\* the number a machine loads from bytes in its storage
Loaded(bytes, big) == IF big THEN bytes ELSE Reversed(bytes)

\* the value of a char with the bits of the byte b
CharOf(b, char_signed) == IF char_signed /\ b >= 128 THEN b - 256 ELSE b

\* the offsets and sizes of wl, element, loggf, e_low, j_low, e_high,
\* j_high, lande_low, lande_high, gamrad, gamst, gamvw (lines 112-123)
LineFields ==
  << <<0, 8>>, <<8, 4>>, <<12, 4>>, <<16, 8>>, <<24, 4>>, <<28, 8>>,
     <<36, 4>>, <<40, 4>>, <<44, 4>>, <<48, 4>>, <<52, 4>>, <<56, 4>> >>

\* the offsets and sizes of wl1, wl2, offset, length in struct RECORD
\* (lines 55-59)
RecordFields == << <<0, 8>>, <<8, 8>>, <<16, 4>>, <<20, 4>> >>

RecordSize == RecordFields[4][1] + RecordFields[4][2]

\* line + 60, lines 124 and 147
TextOffset == 60

\* lines 125-133
MultiRefAt == 236

MultiRefBelow == 48

\* a line with the byte b at offset 236, and descriptors of one and of two
\* records
WireLine(b) ==
  [p \in 1..LINE_LENGTH |-> IF p = MultiRefAt + 1 THEN b ELSE (7 * p) % 251]

WireDescriptor(n) ==
  <<n, 0, 0, 0>> \o [p \in 1..(n * RecordSize) |-> (11 * p + 5) % 256]

Wires ==
  {[dsc |-> WireDescriptor(n), line |-> WireLine(b)] :
     n \in {1, 2}, b \in {10, 47, 48, 127, 128, 200}}

BOInit ==
  /\ MailIdle
  /\ PRIdle
  /\ UKIdle
  /\ LZOnlyIdle
  /\ pc = "ukopen_"
  /\ host \in Hosts
  /\ change_byte_order = 0
  /\ wire \in Wires
  /\ got = [count |-> <<>>, records |-> <<>>, dir |-> <<>>, line |-> <<>>,
            fields |-> <<>>, str |-> <<>>]

BOKeeps ==
  /\ UNCHANGED << mail, pos, cl_register, cl_register_local, last_file, disk,
                  process, s, n_requests, n_requests_orig,
                  has_begin_request, has_end_request, is_mirror, fo, filename,
                  address, ClientName, ret, unclosed, start, owner, commits >>
  /\ UNCHANGED prvars
  /\ UNCHANGED ukvars
  /\ UNCHANGED << record, length, decoder, corpus, encoder, host, wire >>

\* the field of size n at offset off of the array arr, swapped in its place
\* where change_byte_order is set
Swapped(arr, off, n, swap) ==
  IF swap # 0 THEN WithBytes(arr, off, ByteSwap(BytesAt(arr, off, n), n))
  ELSE arr

\* the number of four bytes v
Nat4(v) == ((v[1] * 256 + v[2]) * 256 + v[3]) * 256 + v[4]

\* lines 296-305: change_byte_order is set, number_of_records and the
\* directory are read
BOOpen ==
  /\ pc = "ukopen_"
  /\ change_byte_order' = IF host.big THEN 1 ELSE 0
  /\ got' = [got EXCEPT
               !.count = Loaded(BytesAt(Swapped(wire.dsc, 0, 4,
                                                IF host.big THEN 1 ELSE 0),
                                        0, 4),
                                host.big),
               !.records = SubSeq(wire.dsc, 5, Len(wire.dsc))]
  /\ pc' = "directory"
  /\ BOKeeps

\* lines 306-316: a field of an entry of the directory, the k-th of all, is
\* swapped where change_byte_order is set, and read
BODirectoryField(k, off, n) ==
  got' = [got EXCEPT
            !.records = Swapped(@, off, n, change_byte_order),
            !.dir = Append(@, Loaded(BytesAt(Swapped(got.records, off, n,
                                                     change_byte_order),
                                             off, n),
                                     host.big))]

BODirectory ==
  /\ pc = "directory"
  /\ IF Len(got.dir) < Len(RecordFields) * Nat4(got.count)
       THEN /\ BODirectoryField(
                 Len(got.dir),
                 (Len(got.dir) \div Len(RecordFields)) * RecordSize
                 + RecordFields[(Len(got.dir) % Len(RecordFields)) + 1][1],
                 RecordFields[(Len(got.dir) % Len(RecordFields)) + 1][2])
            /\ UNCHANGED pc
       ELSE /\ got' = [got EXCEPT !.line = wire.line]
            /\ pc' = "ADDLINE"
  /\ UNCHANGED change_byte_order
  /\ BOKeeps

\* lines 112-123 and 135-146: the field at offset off of size n
BOLineField(off, n) ==
  got' = [got EXCEPT
            !.line = Swapped(@, off, n, change_byte_order),
            !.fields = Append(@, Loaded(BytesAt(Swapped(got.line, off, n,
                                                        change_byte_order),
                                                off, n),
                                        host.big))]

BOField ==
  /\ pc = "ADDLINE"
  /\ Len(got.fields) < Len(LineFields)
  /\ BOLineField(LineFields[Len(got.fields) + 1][1],
                 LineFields[Len(got.fields) + 1][2])
  /\ UNCHANGED << pc, change_byte_order >>
  /\ BOKeeps

\* lines 126-131: the bytes of str that are taken from line crosswise
Crossed(q) ==
  IF q \in {177, 179, 181} THEN q + TextOffset + 1
  ELSE IF q \in {178, 180, 182} THEN q + TextOffset - 1
  ELSE q + TextOffset

\* lines 124-133 and 147: str + nlines*210, q counted from 0
BOText ==
  /\ pc = "ADDLINE"
  /\ Len(got.fields) = Len(LineFields)
  /\ got' = [got EXCEPT
               !.str =
                 IF change_byte_order # 0
                    /\ CharOf(got.line[MultiRefAt + 1], host.char_signed)
                         < MultiRefBelow
                   THEN [p \in 1..STR_BYTES_PER_LINE |->
                           got.line[Crossed(p - 1) + 1]]
                   ELSE BytesAt(got.line, TextOffset, STR_BYTES_PER_LINE)]
  /\ pc' = "done"
  /\ UNCHANGED change_byte_order
  /\ BOKeeps

BOStep == BOOpen \/ BODirectory \/ BOField \/ BOText

SpecBO == BOInit /\ [][BOStep]_vars

\* the numbers read are those a little-endian machine reads from the bytes
\* of the files without swapping them
BONumbersSame ==
  /\ pc # "ukopen_" => got.count = Reversed(BytesAt(wire.dsc, 0, 4))
  /\ \A k \in 1..Len(got.dir) :
       got.dir[k] =
         Reversed(BytesAt(wire.dsc,
                          4 + ((k - 1) \div Len(RecordFields)) * RecordSize
                          + RecordFields[((k - 1) % Len(RecordFields)) + 1][1],
                          RecordFields[((k - 1) % Len(RecordFields)) + 1][2]))
  /\ \A k \in 1..Len(got.fields) :
       got.fields[k] =
         Reversed(BytesAt(wire.line, LineFields[k][1], LineFields[k][2]))

\* the text block with the bytes of the three pointers at offsets 237-242 of
\* the line in pairs the other way round
PointersSwapped(text) ==
  [p \in 1..Len(text) |->
     IF p + TextOffset - 1 \in (MultiRefAt + 1)..(MultiRefAt + 6)
       THEN text[IF (p + TextOffset - 1 - MultiRefAt) % 2 = 1 THEN p + 1 ELSE p - 1]
       ELSE text[p]]

\* C31: with change_byte_order set on a big-endian machine, the number of
\* records, the fields of the directory and the twelve fields of a line are
\* the numbers a little-endian machine reads from the same bytes, and the
\* text block is the 210 bytes of the line, with the three pointers at
\* offsets 237-242 swapped exactly when the byte at offset 236 is below 48
C31_SameOnBothByteOrders ==
  /\ BONumbersSame
  /\ pc = "done" =>
       got.str =
         IF host.big /\ wire.line[MultiRefAt + 1] < MultiRefBelow
           THEN PointersSwapped(BytesAt(wire.line, TextOffset, STR_BYTES_PER_LINE))
           ELSE BytesAt(wire.line, TextOffset, STR_BYTES_PER_LINE)

====
